---- MODULE Spec2Model ----
(***************************************************************************)
(* ts-shipment-tracking: the request resilience and dispatch pipeline.     *)
(*                                                                         *)
(*   SpecToken   BaseProvider: OAuth token cache, single-flight refresh,   *)
(*               401 re-auth, error wrapping of track()                    *)
(*   SpecBreaker CircuitBreakerMiddleware, concurrent calls, several keys  *)
(*   SpecRetry   RetryMiddleware around an arbitrary downstream            *)
(*   SpecCache   CacheMiddleware over MemoryCacheAdapter                   *)
(*   SpecTracker ShipmentTracker.track / executeMiddlewareChain with the   *)
(*               middlewares above and a provider as the terminal call     *)
(*                                                                         *)
(* Time is Date.now() in milliseconds.  Every await is a separate step.    *)
(***************************************************************************)
EXTENDS Integers, Sequences, FiniteSets, TLC

VARIABLES
  now,            \* Date.now()
  \* ---- BaseProvider (one adapter instance)
  tokenCache,     \* this.tokenCache
  tokenPromise,   \* this.tokenPromise: 0 is null, else the index in promises
  promises,       \* every promise refreshToken() returned, in order of creation
  req,            \* the track() calls on the adapter, one per caller
  tracksStarted,  \* number of track() calls made so far
  \* ---- CircuitBreakerMiddleware
  cbOpts,         \* this.failureThreshold, this.resetTimeoutMs
  circuits,       \* this.circuits
  cbCall,         \* the execute() calls, one per caller
  cbHist,         \* per key: completions since the last success, last event
  cbCalls,        \* number of execute() calls made so far
  \* ---- RetryMiddleware
  rt,             \* one execute() call and the downstream it drives
  \* ---- CacheMiddleware / MemoryCacheAdapter
  cacheTtl,       \* this.ttlMs
  cacheMap,       \* MemoryCacheAdapter.cache
  cacheCall,      \* the execute() calls, one per caller
  cacheHist,      \* per key: what the calls did
  \* ---- ShipmentTracker
  tk,             \* one track() call: chain, index, frames, hook log
  batch,          \* one trackBatch() call: items, their track() calls, entries
  made,           \* one createTracker() call: its options, what it returned
  \* ---- RateLimiterMiddleware
  lim             \* this.limiters, the Bottlenecks, the execute() calls

tokenVars   == <<tokenCache, tokenPromise, promises, req, tracksStarted>>
breakerVars == <<cbOpts, circuits, cbCall, cbHist, cbCalls>>
retryVars   == <<rt>>
cacheVars   == <<cacheTtl, cacheMap, cacheCall, cacheHist>>
trackerVars == <<tk, batch, made, lim>>
vars == <<now, tokenVars, breakerVars, retryVars, cacheVars, trackerVars>>

(***************************************************************************)
(* Bounds of the model                                                     *)
(***************************************************************************)
MaxTicks == 2          \* clock ticks (of 30 s) in one behaviour
NCallers == 2          \* concurrent track() calls on one adapter
MaxTracks == 2         \* track() calls on the adapter in all
MaxRefresh == 3        \* token requests in all
NCbCallers == 2        \* concurrent calls of CircuitBreakerMiddleware.execute
MaxCbCalls == 3        \* calls of CircuitBreakerMiddleware.execute in all
MaxThreshold == 2      \* largest failureThreshold configured
MaxAttemptsCap == 3    \* largest maxAttempts configured
NCacheCallers == 2     \* concurrent calls of CacheMiddleware.execute
MaxCacheCalls == 3     \* calls of CacheMiddleware.execute in all
MaxTrackerTracks == 2  \* track() calls on the tracker in all
MaxItems == 2          \* items of one trackBatch() call
MaxOptionsSet == 2     \* keys of options.middlewares set in one createTracker()
NLimCallers == 2       \* calls of RateLimiterMiddleware.execute in all
MaxLimTicks == 5       \* steps of the clock of the rate limiter

Callers == 1..NCallers
CbCallers == 1..NCbCallers
CacheCallers == 1..NCacheCallers

\* The clock advances, 30 s at a time
Tick ==
  /\ now < MaxTicks * 30000
  /\ now' = now + 30000

(***************************************************************************)
(* Errors.  cls is the JavaScript class, status the HTTP status of         *)
(* err.response (0: no response), id the identity of the object.           *)
(***************************************************************************)
Err(cls, status, id) == [cls |-> cls, status |-> status, id |-> id]

(***************************************************************************)
(* BaseProvider (src/src/providers/base-provider.ts)                       *)
(***************************************************************************)
TOKEN_BUFFER_MS == 60000

\* expires_in values (seconds) the token endpoint may answer with
ExpiresIn == {30, 120}

\* What one carrier data call can end in: a response, a carrier-reported
\* error (a ProviderError thrown by fetchTrackingData / checkForError), or an
\* AxiosError with the given HTTP status (0: no response at all).
DataStatuses == {401, 500}
TokenStatuses == {401}

\* tokenCache.  expiry is not a field of the code's record: it is the instant
\* the token expires at the carrier (receipt + expires_in), kept for the
\* properties.
NoToken == [has |-> FALSE, token |-> 0, expiresAt |-> 0, expiry |-> 0]

\* What ended a track(): the call that failed ("token": the token request,
\* "data": the data call) and the HTTP status of its AxiosError (0: none)
NoCause == [at |-> "none", status |-> 0]

\* One track() of a caller.  calls counts its data calls; out is "ok" or the
\* class of the error track() rejected with, cause what that error wraps.
IdleReq == [pc |-> "idle", phase |-> 1, p |-> 0, tok |-> 0, from |-> 0,
            calls |-> 0, out |-> "none", cause |-> NoCause]

\* A track() that has ended (what it waited for and used is not kept)
EndedReq(calls, out, cause) ==
  [IdleReq EXCEPT !.pc = "done", !.calls = calls, !.out = out, !.cause = cause]

\* getToken, line 145: the cached token is served
CacheValid_TwiceBuffered(cache) ==
  cache.has /\ now < cache.expiresAt - TOKEN_BUFFER_MS
CacheValid(cache) == cache.has /\ now < cache.expiresAt

\* getToken, line 150: a refresh promise is there to join
RefreshInFlight_Never == FALSE
RefreshInFlight == tokenPromise # 0

\* refreshToken, lines 195-198
StoredToken_NoBuffer(tok, expiresIn) ==
  [has |-> TRUE, token |-> tok,
   expiresAt |-> now + expiresIn * 1000,
   expiry |-> now + expiresIn * 1000]
StoredToken(tok, expiresIn) ==
  [has |-> TRUE, token |-> tok,
   expiresAt |-> now + expiresIn * 1000 - TOKEN_BUFFER_MS,
   expiry |-> now + expiresIn * 1000]

\* getToken, lines 156-161: tokenPromise after the await of a caller that
\* waited as `pc`; the finally of the caller that created the promise nulls it
ClearedHandle_Kept(pc) == tokenPromise
ClearedHandle(pc) == IF pc = "ownWait" THEN 0 ELSE tokenPromise

\* fetchWithAuthRetry, lines 204-212: a 401 is caught, and answered with a new
\* token and a repeated call, only for the first data call (phase 1); the
\* repeated call of line 211 (phase 2) is outside the try
MayReauth_Always(phase) == TRUE
MayReauth(phase) == phase = 1

\* track, lines 87-106: what the catch block rethrows
TrackCatch(err) ==
  IF err.cls \in {"ProviderError", "AuthenticationError"}
  THEN err
  ELSE Err("ProviderError", 0, err.id + 100)

\* getToken up to its first await, called by caller c with the cache as it is
\* at the call (fetchWithAuthRetry nulls it just before calling).
GetToken(c, phase, cache, calls) ==
  IF CacheValid(cache)
  THEN /\ req' = [req EXCEPT ![c] = [pc |-> "fetch", phase |-> phase, p |-> 0,
                                     tok |-> cache.token, from |-> 0,
                                     calls |-> calls + 1, out |-> "none",
                                     cause |-> NoCause]]
       /\ UNCHANGED <<tokenPromise, promises>>
  ELSE IF RefreshInFlight
  THEN /\ req' = [req EXCEPT ![c] = [pc |-> "joinWait", phase |-> phase,
                                     p |-> tokenPromise, tok |-> 0, from |-> 0,
                                     calls |-> calls, out |-> "none",
                                     cause |-> NoCause]]
       /\ UNCHANGED <<tokenPromise, promises>>
  ELSE /\ Len(promises) < MaxRefresh
       /\ promises' = Append(promises, [state |-> "pending", token |-> 0,
                                        status |-> 0])
       /\ tokenPromise' = Len(promises) + 1
       /\ req' = [req EXCEPT ![c] = [pc |-> "ownWait", phase |-> phase,
                                     p |-> Len(promises) + 1, tok |-> 0,
                                     from |-> 0, calls |-> calls,
                                     out |-> "none", cause |-> NoCause]]

\* track(): validateCreds, getBaseUrl, then getToken.  Callers are
\* interchangeable: a new call takes the first caller that has none running.
TrackStart(c) ==
  /\ req[c].pc \in {"idle", "done"}
  /\ \A c2 \in 1..(c - 1) : req[c2].pc \notin {"idle", "done"}
  /\ tracksStarted < MaxTracks
  /\ tracksStarted' = tracksStarted + 1
  /\ GetToken(c, 1, tokenCache, 0)
  /\ UNCHANGED <<now, tokenCache, breakerVars, retryVars, cacheVars, trackerVars>>

\* The token endpoint answers the request of promise p: refreshToken resumes
\* after its await, stores the token and resolves, or rejects.
RefreshOk(p) ==
  /\ p \in 1..Len(promises) /\ promises[p].state = "pending"
  /\ \E e \in ExpiresIn :
       /\ tokenCache' = StoredToken(p, e)
       /\ promises' = [promises EXCEPT ![p] = [state |-> "resolved",
                                               token |-> p, status |-> 0]]
  /\ UNCHANGED <<now, tokenPromise, req, tracksStarted,
                 breakerVars, retryVars, cacheVars, trackerVars>>

RefreshFail(p) ==
  /\ p \in 1..Len(promises) /\ promises[p].state = "pending"
  /\ \E s \in TokenStatuses :
       promises' = [promises EXCEPT ![p] = [state |-> "rejected", token |-> 0,
                                            status |-> s]]
  /\ UNCHANGED <<now, tokenCache, tokenPromise, req, tracksStarted,
                 breakerVars, retryVars, cacheVars, trackerVars>>

\* A caller's await of the refresh promise completes.  The owner (the caller
\* that created the promise) runs the finally of getToken first.
AwaitDone(c) ==
  /\ req[c].pc \in {"ownWait", "joinWait"}
  /\ promises[req[c].p].state # "pending"
  /\ tokenPromise' = ClearedHandle(req[c].pc)
  /\ IF promises[req[c].p].state = "resolved"
     THEN req' = [req EXCEPT ![c].pc = "fetch",
                             ![c].tok = promises[req[c].p].token,
                             ![c].from = req[c].p,
                             ![c].calls = req[c].calls + 1]
     ELSE req' = [req EXCEPT ![c] =
                    EndedReq(req[c].calls,
                             TrackCatch(Err("AxiosError",
                                            promises[req[c].p].status,
                                            req[c].p)).cls,
                             [at |-> "token",
                              status |-> promises[req[c].p].status])]
  /\ UNCHANGED <<now, tokenCache, promises, tracksStarted,
                 breakerVars, retryVars, cacheVars, trackerVars>>

\* The carrier answers the data call of caller c with a result
FetchOk(c) ==
  /\ req[c].pc = "fetch"
  /\ req' = [req EXCEPT ![c] = EndedReq(req[c].calls, "ok", NoCause)]
  /\ UNCHANGED <<now, tokenCache, tokenPromise, promises, tracksStarted,
                 breakerVars, retryVars, cacheVars, trackerVars>>

\* ... with 401 on the first data call: fetchWithAuthRetry, lines 207-211
Fetch401(c) ==
  /\ req[c].pc = "fetch" /\ MayReauth(req[c].phase)
  /\ tokenCache' = NoToken
  /\ GetToken(c, 2, NoToken, req[c].calls)
  /\ UNCHANGED <<now, tracksStarted,
                 breakerVars, retryVars, cacheVars, trackerVars>>

\* ... with any other failure, or with 401 on the repeated call
FetchFail(c) ==
  /\ req[c].pc = "fetch"
  /\ \E s \in DataStatuses \cup {0}, cls \in {"AxiosError", "ProviderError"} :
       /\ cls = "ProviderError" <=> s = 0
       /\ (cls = "AxiosError" /\ s = 401) => ~MayReauth(req[c].phase)
       /\ req' = [req EXCEPT ![c] =
                      EndedReq(req[c].calls, TrackCatch(Err(cls, s, c)).cls,
                               [at |-> "data", status |-> s])]
  /\ UNCHANGED <<now, tokenCache, tokenPromise, promises, tracksStarted,
                 breakerVars, retryVars, cacheVars, trackerVars>>

TokenTick == Tick /\ UNCHANGED <<tokenVars, breakerVars, retryVars, cacheVars, trackerVars>>

InitToken ==
  /\ tokenCache = NoToken
  /\ tokenPromise = 0
  /\ promises = <<>>
  /\ req = [c \in Callers |-> IdleReq]
  /\ tracksStarted = 0


(***************************************************************************)
(* CircuitBreakerMiddleware (src/src/middleware/circuit-breaker.ts)         *)
(***************************************************************************)
Keys == {"ups", "fedex"}

\* resetTimeoutMs as configured (30000 is the default of line 31)
ResetTimeouts == {30000, 60000}

\* n numbers the calls in the order they are made
IdleCb == [pc |-> "idle", n |-> 0, key |-> "none", probe |-> FALSE,
           out |-> "none"]

\* getCircuit, line 37
NewCircuit == [state |-> "CLOSED", failures |-> 0, lastFailureTime |-> 0]

\* getCircuit, lines 34-41, as the map after the call
GetCircuit_Touching(k) ==
  IF k \in DOMAIN circuits
  THEN [circuits EXCEPT ![k].lastFailureTime = now]
  ELSE circuits @@ (k :> NewCircuit)
GetCircuit_AllKeys(k) ==
  [k2 \in Keys |-> IF k2 \in DOMAIN circuits THEN circuits[k2] ELSE NewCircuit]
GetCircuit(k) ==
  IF k \in DOMAIN circuits THEN circuits ELSE circuits @@ (k :> NewCircuit)

\* execute, line 47: the reset timeout has elapsed
ResetElapsed_Strict(circuit) ==
  now - circuit.lastFailureTime > cbOpts.resetTimeoutMs
ResetElapsed(circuit) ==
  now - circuit.lastFailureTime >= cbOpts.resetTimeoutMs

\* execute, lines 46-52: TRUE when the call is thrown out with the
\* breaker-open TrackingError
CbRejects_Never(circuit) == FALSE
CbRejects(circuit) == circuit.state = "OPEN" /\ ~ResetElapsed(circuit)

\* execute, lines 46-52: the circuit a call that is let through leaves
CbAdmit(circuit) ==
  IF circuit.state = "OPEN" THEN [circuit EXCEPT !.state = "HALF_OPEN"]
  ELSE circuit

\* execute, lines 56-58
CbOnSuccess_KeepState(circuit) == [circuit EXCEPT !.failures = 0]
CbOnSuccess_KeepCount(circuit) == [circuit EXCEPT !.state = "CLOSED"]
CbOnSuccess(circuit) == [circuit EXCEPT !.state = "CLOSED", !.failures = 0]

\* execute, lines 61-65
CbOnFailure_Above(circuit) ==
  [state |-> IF circuit.failures + 1 > cbOpts.failureThreshold
             THEN "OPEN" ELSE circuit.state,
   failures |-> circuit.failures + 1,
   lastFailureTime |-> now]
CbOnFailure_KeepTime(circuit) ==
  [state |-> IF circuit.failures + 1 >= cbOpts.failureThreshold
             THEN "OPEN" ELSE circuit.state,
   failures |-> circuit.failures + 1,
   lastFailureTime |-> circuit.lastFailureTime]
CbOnFailure(circuit) ==
  [state |-> IF circuit.failures + 1 >= cbOpts.failureThreshold
             THEN "OPEN" ELSE circuit.state,
   failures |-> circuit.failures + 1,
   lastFailureTime |-> now]

\* execute() up to the call of next(), or to the throw of line 50
CbEnter(c, k) ==
  /\ cbCall[c].pc \in {"idle", "done"}
  /\ \A c2 \in 1..(c - 1) : cbCall[c2].pc = "inflight"
  /\ cbCalls < MaxCbCalls
  /\ cbCalls' = cbCalls + 1
  /\ LET map == GetCircuit(k)
         circuit == map[k]
         entry == [IdleCb EXCEPT !.key = k, !.n = cbCalls + 1]
     IN IF CbRejects(circuit)
        THEN /\ circuits' = map
             /\ cbCall' = [cbCall EXCEPT ![c] =
                             [entry EXCEPT !.pc = "done", !.out = "rejected"]]
             /\ cbHist' = [cbHist EXCEPT ![k].lastEv = "rejected"]
        ELSE /\ circuits' = [map EXCEPT ![k] = CbAdmit(circuit)]
             /\ cbCall' = [cbCall EXCEPT ![c] =
                             [entry EXCEPT !.pc = "inflight",
                                           !.probe = (circuit.state = "OPEN")]]
             /\ cbHist' = [cbHist EXCEPT ![k].lastEv = "passed"]
  /\ UNCHANGED <<now, cbOpts, tokenVars, retryVars, cacheVars, trackerVars>>

\* next() resolves
CbSuccess(c) ==
  /\ cbCall[c].pc = "inflight"
  /\ circuits' = [circuits EXCEPT ![cbCall[c].key] = CbOnSuccess(@)]
  /\ cbCall' = [cbCall EXCEPT ![c].pc = "done", ![c].out = "ok"]
  /\ cbHist' = [cbHist EXCEPT ![cbCall[c].key] = [consec |-> 0, lastEv |-> "ok"]]
  /\ UNCHANGED <<now, cbOpts, cbCalls, tokenVars, retryVars, cacheVars, trackerVars>>

\* next() rejects
CbFailure(c) ==
  /\ cbCall[c].pc = "inflight"
  /\ circuits' = [circuits EXCEPT ![cbCall[c].key] = CbOnFailure(@)]
  /\ cbCall' = [cbCall EXCEPT ![c].pc = "done", ![c].out = "failed"]
  /\ cbHist' = [cbHist EXCEPT ![cbCall[c].key] =
                  [consec |-> @.consec + 1, lastEv |-> "failed"]]
  /\ UNCHANGED <<now, cbOpts, cbCalls, tokenVars, retryVars, cacheVars, trackerVars>>

BreakerTick == Tick /\ UNCHANGED <<tokenVars, breakerVars, retryVars, cacheVars, trackerVars>>

BreakerOptions ==
  [failureThreshold : 1..MaxThreshold, resetTimeoutMs : ResetTimeouts]

IdleBreaker ==
  /\ circuits = [k \in {} |-> NewCircuit]
  /\ cbCall = [c \in CbCallers |-> IdleCb]
  /\ cbHist = [k \in Keys |-> [consec |-> 0, lastEv |-> "none"]]
  /\ cbCalls = 0

InitBreaker ==
  /\ cbOpts \in BreakerOptions
  /\ IdleBreaker


(***************************************************************************)
(* RetryMiddleware (src/unnamed/part_008: middleware/retry.ts)             *)
(***************************************************************************)
\* the value of an unassigned variable (let lastError) or of no result
Undefined == Err("undefined", 0, 0)

\* maxAttempts as configured: 3 is the default; 0 and -1 are accepted too
AttemptOptions == (-1)..MaxAttemptsCap
BaseDelays == {1, 1000}

\* What next() can reject with: an AxiosError with a response status (0: no
\* response, as for a timeout), or an error of another class.
HttpStatuses == {0, 400, 401, 404, 429, 499, 500, 503}
OtherErrors == {"Error", "TrackingError", "ProviderError"}
Thrown(id) ==
  {Err("AxiosError", s, id) : s \in HttpStatuses}
    \cup {Err(cls, 0, id) : cls \in OtherErrors}

\* isRetryable, lines 21-27
IsRetryable_No429(err) ==
  err.cls = "AxiosError" /\ err.status # 0 /\ err.status >= 500
IsRetryable_AnyError(err) == TRUE
IsRetryable(err) ==
  /\ err.cls = "AxiosError"
  /\ (err.status = 429 \/ (err.status # 0 /\ err.status >= 500))

\* execute, line 37: the attempt that just failed was the last permitted one
LastAttempt_OffByOne(attempt, maxAttempts) == attempt = maxAttempts
LastAttempt(attempt, maxAttempts) == attempt = maxAttempts - 1

\* execute, line 40
BackoffDelay_Constant(baseDelayMs, attempt) == baseDelayMs
BackoffDelay(baseDelayMs, attempt) == baseDelayMs * 2 ^ attempt

IdleRetry(maxAttempts, baseDelayMs) ==
  [pc |-> "idle", maxAttempts |-> maxAttempts, baseDelayMs |-> baseDelayMs,
   attempt |-> 0, calls |-> 0, lastError |-> Undefined,
   errs |-> <<>>, slept |-> <<>>,
   out |-> [kind |-> "none", val |-> 0, err |-> Undefined]]

\* The head of the for loop (line 32) with the loop variable at `attempt`:
\* call next(), or leave the loop and throw lastError (line 45).
RetryLoop(r, attempt) ==
  IF attempt < r.maxAttempts
  THEN [r EXCEPT !.pc = "calling", !.attempt = attempt, !.calls = @ + 1]
  ELSE [r EXCEPT !.pc = "done", !.attempt = attempt,
                 !.out = [kind |-> "error", val |-> 0, err |-> r.lastError]]

\* The catch block, lines 35-42, for the error next() rejected with
RetryCatch(r, err) ==
  LET r1 == [r EXCEPT !.lastError = err, !.errs = Append(@, err)]
  IN IF ~IsRetryable(err) \/ LastAttempt(r.attempt, r.maxAttempts)
     THEN [r1 EXCEPT !.pc = "done",
                     !.out = [kind |-> "error", val |-> 0, err |-> err]]
     ELSE [r1 EXCEPT !.pc = "sleeping",
                     !.slept = Append(@, BackoffDelay(r.baseDelayMs, r.attempt))]

RetryExecute ==
  /\ rt.pc = "idle"
  /\ rt' = RetryLoop(rt, 0)
  /\ UNCHANGED <<now, tokenVars, breakerVars, cacheVars, trackerVars>>

\* next() resolves with a result (identified by the number of the call)
RetryNextOk ==
  /\ rt.pc = "calling"
  /\ rt' = [rt EXCEPT !.pc = "done",
                      !.out = [kind |-> "value", val |-> rt.calls,
                               err |-> Undefined]]
  /\ UNCHANGED <<now, tokenVars, breakerVars, cacheVars, trackerVars>>

RetryNextFail ==
  /\ rt.pc = "calling"
  /\ \E err \in Thrown(rt.calls) : rt' = RetryCatch(rt, err)
  /\ UNCHANGED <<now, tokenVars, breakerVars, cacheVars, trackerVars>>

\* the setTimeout of line 41 fires: attempt++ and back to the loop head
RetryWake ==
  /\ rt.pc = "sleeping"
  /\ rt' = RetryLoop(rt, rt.attempt + 1)
  /\ UNCHANGED <<now, tokenVars, breakerVars, cacheVars, trackerVars>>

IdleRetryVars == rt = IdleRetry(3, 1000)

InitRetry ==
  \E m \in AttemptOptions, b \in BaseDelays : rt = IdleRetry(m, b)


(***************************************************************************)
(* MemoryCacheAdapter and CacheMiddleware (src/src/middleware/cache.ts)    *)
(***************************************************************************)
\* ttlMs as configured: one tick of the clock, so that entries expire within a
\* behaviour (line 39: the default is 5 * 60 * 1000)
CacheTtls == {30000}

\* What next() may reject with under the cache
CacheThrown(id) == {Err("AxiosError", 500, id)}

\* ctx.courierCode and ctx.trackingNumber are strings (types.ts, lines
\* 201-203): sequences of pieces of text, concatenation of strings being
\* concatenation of the sequences.  The courier code is the `code` of a
\* provider, any string (base-provider.ts, line 48); the tracking number is
\* the caller's.
CachePairs ==
  { <<<<"ups">>, <<"1">>>>, <<<<"ups">>, <<"1", ":", "2">>>>,
    <<<<"ups", ":", "1">>, <<"2">>>> }

\* getCacheKey, line 43: `${ctx.courierCode}:${ctx.trackingNumber}`
GetCacheKey(courier, tn) == courier \o <<":">> \o tn

\* MemoryCacheAdapter.get, lines 12-20: the entry is expired
Expired_AtExpiry(entry) == now >= entry.expiresAt
Expired(entry) == now > entry.expiresAt

\* MemoryCacheAdapter.get: the map it leaves, and what it returns
\* (found = FALSE is undefined)
AdapterGetMap(map, key) ==
  IF key \in DOMAIN map /\ Expired(map[key])
  THEN [k \in DOMAIN map \ {key} |-> map[k]]
  ELSE map
AdapterGet(map, key) ==
  IF key \in DOMAIN map /\ ~Expired(map[key])
  THEN [found |-> TRUE, value |-> map[key].value]
  ELSE [found |-> FALSE, value |-> 0]

\* MemoryCacheAdapter.set, lines 22-24
AdapterSet(map, key, value, ttlMs) ==
  [k \in DOMAIN map \cup {key} |->
     IF k = key THEN [value |-> value, expiresAt |-> now + ttlMs] ELSE map[k]]

\* CacheMiddleware.execute, lines 50-54: the map after next() has rejected
\* (the error leaves execute, nothing is stored)
CacheOnError_Stores(map, key, ttlMs) == AdapterSet(map, key, 0, ttlMs)
CacheOnError(map, key, ttlMs) == map

\* n numbers the calls in the order they are made; down is the number of the
\* downstream call the call made (0: none)
IdleCacheCall == [pc |-> "idle", n |-> 0, courier |-> <<>>, tn |-> <<>>,
                  down |-> 0,
                  out |-> [kind |-> "none", val |-> 0, err |-> Undefined]]

\* execute, lines 47-51: the key, adapter.get, and on a miss the call of next()
CacheEnter(c, courier, tn) ==
  /\ cacheCall[c].pc \in {"idle", "done"}
  /\ \A c2 \in 1..(c - 1) : cacheCall[c2].pc = "inflight"
  /\ cacheHist.started < MaxCacheCalls
  /\ LET key == GetCacheKey(courier, tn)
         cached == AdapterGet(cacheMap, key)
         entry == [IdleCacheCall EXCEPT !.courier = courier, !.tn = tn,
                                        !.n = cacheHist.started + 1]
     IN /\ cacheMap' = AdapterGetMap(cacheMap, key)
        /\ IF cached.found
           THEN /\ cacheCall' = [cacheCall EXCEPT ![c] =
                      [entry EXCEPT !.pc = "done",
                                    !.out = [kind |-> "value",
                                             val |-> cached.value,
                                             err |-> Undefined]]]
                /\ cacheHist' = [cacheHist EXCEPT !.started = @ + 1]
           ELSE /\ cacheCall' = [cacheCall EXCEPT ![c] =
                      [entry EXCEPT !.pc = "inflight",
                                    !.down = cacheHist.down + 1]]
                /\ cacheHist' = [cacheHist EXCEPT !.started = @ + 1,
                                                  !.down = @ + 1]
  /\ UNCHANGED <<now, cacheTtl, tokenVars, breakerVars, retryVars, trackerVars>>

\* next() resolves (the result is identified by the number of the downstream
\* call): adapter.set, then return
CacheNextOk(c) ==
  /\ cacheCall[c].pc = "inflight"
  /\ LET cc == cacheCall[c]
     IN /\ cacheMap' = AdapterSet(cacheMap, GetCacheKey(cc.courier, cc.tn),
                                  cc.down, cacheTtl)
        /\ cacheCall' = [cacheCall EXCEPT ![c].pc = "done",
                           ![c].out = [kind |-> "value", val |-> cc.down,
                                       err |-> Undefined]]
        /\ cacheHist' = [cacheHist EXCEPT
                           !.last[<<cc.courier, cc.tn>>] =
                              [has |-> TRUE, val |-> cc.down, at |-> now]]
  /\ UNCHANGED <<now, cacheTtl, tokenVars, breakerVars, retryVars, trackerVars>>

\* next() rejects
CacheNextFail(c) ==
  /\ cacheCall[c].pc = "inflight"
  /\ LET cc == cacheCall[c]
     IN /\ cacheMap' = CacheOnError(cacheMap, GetCacheKey(cc.courier, cc.tn),
                                    cacheTtl)
        /\ \E err \in CacheThrown(cc.down) :
             cacheCall' = [cacheCall EXCEPT ![c].pc = "done",
                             ![c].out = [kind |-> "error", val |-> 0,
                                         err |-> err]]
  /\ UNCHANGED <<now, cacheTtl, cacheHist, tokenVars, breakerVars, retryVars,
                 trackerVars>>

CacheTick == Tick /\ UNCHANGED <<tokenVars, breakerVars, retryVars, cacheVars, trackerVars>>

IdleCache ==
  /\ cacheMap = [k \in {} |-> 0]
  /\ cacheCall = [c \in CacheCallers |-> IdleCacheCall]
  /\ cacheHist = [started |-> 0, down |-> 0,
                  last |-> [p \in CachePairs |->
                              [has |-> FALSE, val |-> 0, at |-> 0]]]

InitCache ==
  /\ cacheTtl \in CacheTtls
  /\ IdleCache


(***************************************************************************)
(* RateLimiterMiddleware (src/src/middleware/circuit-breaker.ts 104-141)   *)
(* in the chain of createTracker with the circuit breaker off: each        *)
(* execute() schedules next() on the Bottleneck of its courier; next() is  *)
(* RetryMiddleware.execute around the carrier call.  A Bottleneck launches *)
(* its queued jobs first in first out, one when fewer than maxConcurrent   *)
(* of its jobs are running and minTime has passed since its last launch.   *)
(***************************************************************************)
\* getLimiter, lines 127-135: options.limits?.[code] ?? DEFAULT_LIMITS[code]
\* ?? {maxConcurrent: 5, minTime: 200}, with options.limits giving "ups" one
\* job at a time, 400 ms apart
LimitsOf(code) ==
  IF code = "ups" THEN [maxConcurrent |-> 1, minTime |-> 400]
  ELSE [maxConcurrent |-> 5, minTime |-> 200]

IdleLim ==
  [limiters |-> [k \in {} |-> 0], bn |-> <<>>,
   call |-> [c \in 1..NLimCallers |->
               [pc |-> "idle", code |-> "none", limiter |-> 0,
                launchedAt |-> -1, wakeAt |-> 0, retry |-> IdleRetry(3, 1000)]],
   starts |-> <<>>]

\* getLimiter, lines 127-135, as the state after the call
GetLimiter_Shared(l, code) ==
  IF code \in DOMAIN l.limiters THEN l
  ELSE IF l.bn # <<>> THEN [l EXCEPT !.limiters = @ @@ (code :> 1)]
  ELSE [l EXCEPT !.limiters = @ @@ (code :> Len(l.bn) + 1),
                 !.bn = Append(@, [config |-> LimitsOf(code), queue |-> <<>>,
                                   running |-> 0, next |-> 0])]
GetLimiter(l, code) ==
  IF code \in DOMAIN l.limiters THEN l
  ELSE [l EXCEPT !.limiters = @ @@ (code :> Len(l.bn) + 1),
                 !.bn = Append(@, [config |-> LimitsOf(code), queue |-> <<>>,
                                   running |-> 0, next |-> 0])]

\* execute, lines 137-140: limiter.schedule(() => next()) queues the job.
\* Call c is the c-th call of execute().
LimExecute(c, code) ==
  /\ lim.call[c].pc = "idle"
  /\ \A d \in 1..(c - 1) : lim.call[d].pc # "idle"
  /\ LET l == GetLimiter(lim, code)
         id == l.limiters[code]
     IN lim' = [l EXCEPT !.bn[id].queue = Append(@, c),
                         !.call[c] = [@ EXCEPT !.pc = "queued", !.code = code,
                                               !.limiter = id]]
  /\ UNCHANGED <<now, tk, batch, made, tokenVars, breakerVars, retryVars, cacheVars>>

\* The carrier call of call c starts now
CarrierStart(l, c) ==
  [l EXCEPT !.starts = Append(@, [code |-> l.call[c].code, at |-> now])]

\* The Bottleneck launches the job at the head of its queue: next() is
\* called, RetryMiddleware.execute makes its first attempt
LimLaunch(c) ==
  /\ lim.call[c].pc = "queued"
  /\ LET id == lim.call[c].limiter
         b == lim.bn[id]
     IN /\ b.queue # <<>> /\ Head(b.queue) = c
        /\ b.running < b.config.maxConcurrent
        /\ now >= b.next
        /\ lim' = CarrierStart(
                    [lim EXCEPT !.bn[id] = [b EXCEPT !.queue = Tail(@),
                                                     !.running = @ + 1,
                                                     !.next = now + b.config.minTime],
                                !.call[c].pc = "calling",
                                !.call[c].launchedAt = now,
                                !.call[c].retry = RetryLoop(@, 0)], c)
  /\ UNCHANGED <<now, tk, batch, made, tokenVars, breakerVars, retryVars, cacheVars>>

\* The carrier call settles: with a result, or with an error that
\* RetryMiddleware (part_008 29-46) rethrows or sleeps on; the job of the
\* Bottleneck ends when next() settles
LimCarrierDone(c, ret) ==
  /\ lim.call[c].pc = "calling"
  /\ LET r == IF ret.kind = "value"
              THEN [lim.call[c].retry EXCEPT !.pc = "done", !.out = ret]
              ELSE RetryCatch(lim.call[c].retry, ret.err)
         id == lim.call[c].limiter
     IN IF r.pc = "sleeping"
        THEN lim' = [lim EXCEPT !.call[c].retry = r, !.call[c].pc = "sleeping",
                                !.call[c].wakeAt = now + r.slept[Len(r.slept)]]
        ELSE lim' = [lim EXCEPT !.call[c].retry = r, !.call[c].pc = "done",
                                !.bn[id].running = @ - 1]
  /\ UNCHANGED <<now, tk, batch, made, tokenVars, breakerVars, retryVars, cacheVars>>

\* The setTimeout of RetryMiddleware fires: the next attempt calls the
\* carrier again, inside the same job
LimWake(c) ==
  /\ lim.call[c].pc = "sleeping"
  /\ now >= lim.call[c].wakeAt
  /\ LET r == RetryLoop(lim.call[c].retry, lim.call[c].retry.attempt + 1)
         id == lim.call[c].limiter
     IN IF r.pc = "calling"
        THEN lim' = CarrierStart([lim EXCEPT !.call[c].retry = r,
                                             !.call[c].pc = "calling"], c)
        ELSE lim' = [lim EXCEPT !.call[c].retry = r, !.call[c].pc = "done",
                                !.bn[id].running = @ - 1]
  /\ UNCHANGED <<now, tk, batch, made, tokenVars, breakerVars, retryVars, cacheVars>>

\* The clock of the rate limiter advances, 200 ms at a time
LimTick ==
  /\ now < MaxLimTicks * 200
  /\ now' = now + 200
  /\ UNCHANGED <<tokenVars, breakerVars, retryVars, cacheVars, trackerVars>>


(***************************************************************************)
(* ShipmentTracker and createTracker (src/src/tracker.ts)                  *)
(*                                                                         *)
(* One track() at a time.  The chain is a stack of frames: the frame on    *)
(* top runs; a frame that called next() waits below the frame next() made. *)
(* A terminal frame is the call execute() = provider.track().              *)
(***************************************************************************)
\* What an option of options.middlewares may be: absent, true, false or a
\* configuration object (types.ts lines 188-195)
OptionValues == {"undefined", "true", "false", "config"}

\* createTracker, lines 151-187: the chain built from options.middlewares
CreateTrackerChain_CacheFirst(o) ==
  (IF o.cache \in {"true", "config"} THEN <<"cache">> ELSE <<>>)
    \o (IF o.rateLimiter # "false" THEN <<"rateLimiter">> ELSE <<>>)
    \o (IF o.retry # "false" THEN <<"retry">> ELSE <<>>)
    \o (IF o.circuitBreaker # "false" THEN <<"circuitBreaker">> ELSE <<>>)
    \o (IF o.logger \in {"true", "config"} THEN <<"logger">> ELSE <<>>)
CreateTrackerChain(o) ==
  (IF o.rateLimiter # "false" THEN <<"rateLimiter">> ELSE <<>>)
    \o (IF o.retry # "false" THEN <<"retry">> ELSE <<>>)
    \o (IF o.circuitBreaker # "false" THEN <<"circuitBreaker">> ELSE <<>>)
    \o (IF o.cache \in {"true", "config"} THEN <<"cache">> ELSE <<>>)
    \o (IF o.logger \in {"true", "config"} THEN <<"logger">> ELSE <<>>)

MiddlewareNames == {"rateLimiter", "retry", "circuitBreaker", "cache", "logger"}
MiddlewareOptions == [MiddlewareNames -> OptionValues]

\* The adapters createTracker can build
Couriers == {"fedex", "ups", "usps"}

\* The options createTracker is called with.  options.providers has each
\* courier absent or given (true and a configuration object are both
\* truthy).  options.middleware is the list the call of the tests passes
\* ("accepts middleware in options"): absent, or one hand-written middleware.
CreateTrackerOptions ==
  [providers : [Couriers -> {"undefined", "config"}],
   middlewares : MiddlewareOptions,
   middleware : {<<>>, <<"mw">>}]

\* createTracker, lines 134-193: the providers and the chain handed to
\* new ShipmentTracker(); options.middleware is never read
CreateTracker(options) ==
  [providers |-> {c \in Couriers : options.providers[c] # "undefined"},
   middleware |-> CreateTrackerChain(options.middlewares)]

\* Chains registered by hand with useMiddleware(): "mw" is a middleware that
\* runs its own code, awaits next() once and returns its result.
CustomChains ==
  {<<>>, <<"mw">>, <<"mw", "mw">>, <<"mw", "mw", "mw">>,
   <<"retry", "mw">>, <<"mw", "retry", "mw">>}

TrackerChains == {CreateTrackerChain(o) : o \in MiddlewareOptions} \cup CustomChains

\* The adapters: "base" runs BaseProvider.track, "mock" overrides track()
\* (the providers of the tests), "none" is a code nothing is registered for.
ProviderKinds == {"base", "mock"}

NoRet == [kind |-> "none", val |-> 0, err |-> Undefined]
Value(v) == [kind |-> "value", val |-> v, err |-> Undefined]
Thrown1(err) == [kind |-> "error", val |-> 0, err |-> err]

Frame(pos, kind) == [pos |-> pos, kind |-> kind, pc |-> "enter"]

\* What a mock provider's track() may reject with
MockThrown(id) ==
  {Err("AxiosError", s, id) : s \in {400, 500}} \cup {Err("Error", 0, id)}

\* What one carrier data call (fetchTrackingData + checkForError) ends in
DataOutcomes(id) ==
  {Value(id)} \cup {Thrown1(Err("AxiosError", s, id)) : s \in {401, 404, 429}}
    \cup {Thrown1(Err("ProviderError", 0, id))}

\* BaseProvider.track, lines 69-107, with the token at hand: the first data
\* call ends in d1; on 401 the repeated call (fetchWithAuthRetry) ends in d2.
BaseTrack(d1, d2) ==
  LET again == d1.kind = "error" /\ d1.err.cls = "AxiosError" /\ d1.err.status = 401
      d == IF again THEN d2 ELSE d1
  IN [ret |-> IF d.kind = "error" THEN Thrown1(TrackCatch(d.err)) ELSE d,
      dataCalls |-> IF again THEN 2 ELSE 1,
      status |-> IF d.kind = "error" THEN d.err.status ELSE 0]

IdleTracker(chain, provider) ==
  [chain |-> chain, provider |-> provider, pc |-> "idle", tracks |-> 0,
   courier |-> "none", tn |-> <<>>,
   index |-> 0, stack |-> <<>>, ret |-> NoRet,
   retry |-> IdleRetry(3, 1000),
   log |-> <<>>, events |-> <<>>, terminalCalls |-> 0, dataCalls |-> 0,
   termLog |-> <<>>, dataStatus |-> 0,
   throwing |-> {},
   out |-> NoRet]

Top(t) == t.stack[Len(t.stack)]
SetTopPc(t, pc) == [t EXCEPT !.stack[Len(t.stack)].pc = pc]
Pop_Wrapping(t, ret) ==
  [t EXCEPT !.stack = SubSeq(@, 1, Len(@) - 1),
            !.ret = IF ret.kind = "error"
                    THEN Thrown1(Err("Error", 0, ret.err.id + 100)) ELSE ret]
Pop(t, ret) == [t EXCEPT !.stack = SubSeq(@, 1, Len(@) - 1), !.ret = ret]
Logged(t, ev) == [t EXCEPT !.log = Append(@, ev)]

\* executeMiddlewareChain, lines 122-128: the closure next()
CallNext_Reversed(t) ==
  IF t.index >= Len(t.chain)
  THEN [t EXCEPT !.stack = Append(@, Frame(0, "terminal")), !.ret = NoRet]
  ELSE [t EXCEPT !.stack = Append(@, Frame(Len(t.chain) - t.index,
                                            t.chain[Len(t.chain) - t.index])),
                 !.index = @ + 1, !.ret = NoRet]
CallNext(t) ==
  IF t.index >= Len(t.chain)
  THEN [t EXCEPT !.stack = Append(@, Frame(0, "terminal")), !.ret = NoRet]
  ELSE [t EXCEPT !.stack = Append(@, Frame(t.index + 1, t.chain[t.index + 1])),
                 !.index = @ + 1, !.ret = NoRet]

Running(kind, pc) ==
  /\ tk.pc = "running" /\ tk.stack # <<>>
  /\ Top(tk).kind \in kind /\ Top(tk).pc = pc

Returned == tk.ret.kind # "none"

PassThrough == {"mw", "logger", "rateLimiter"}


\* No createTracker() call, and one that returned
NoTracker == [pc |-> "none"]
Created(options) ==
  [pc |-> "created", options |-> options,
   providers |-> CreateTracker(options).providers,
   middleware |-> CreateTracker(options).middleware]

\* The providers registered: those createTracker() registered, or on a
\* tracker built by hand one adapter, with code "ups"
Registered == IF made.pc = "created" THEN made.providers ELSE {"ups"}
TrackedNumbers == {<<"1">>, <<"2">>}


\* The tracking numbers the grammar of the registered adapter matches
\* (getTracking over tsTrackingNumberCouriers, lines 89-90)
Detectable == {<<"1">>}

\* opts.courierCode as given to track(): a registered code, a code nothing
\* is registered for, or "auto" for no courierCode at all
CourierInputs == Registered \cup {"unknown", "auto"}

\* track, lines 47-51: new Error('No provider registered for courier code ...')
NotRegistered == Err("Error", 0, 0)
\* detectCourier, lines 92-97: new Error('"..." is not a valid tracking
\* number for registered providers ...')
NotDetected == Err("Error", 0, -1)

\* The grammar that matches a tracking number (getTracking of the library
\* ts-tracking-number over the grammars it is given, line 90): "ups",
\* the universal postal "s10", or none
GrammarOf(tn) ==
  IF tn \in Detectable THEN "ups" ELSE IF tn = <<"9">> THEN "s10" ELSE "none"

\* tsTrackingNumberCouriers of the adapters: [fedex], [ups], [s10, usps]
Declares_OwnCode(p) == {p}
Declares(p) == IF p = "usps" THEN {"s10", "usps"} ELSE {p}

\* track, lines 44-52, and detectCourier: the adapter code the request is
\* resolved to, or the error thrown
Resolve_AlwaysUps(courier, tn) ==
  [ok |-> TRUE, code |-> "ups", err |-> Undefined]
Resolve(courier, tn) ==
  IF courier = "auto"
  THEN LET allCouriers == UNION {Declares(p) : p \in Registered}
           detectedCode == GrammarOf(tn)
           owners == {p \in Registered : detectedCode \in Declares(p)}
           code == IF owners # {} THEN CHOOSE p \in owners : TRUE
                   ELSE detectedCode
       IN IF detectedCode \notin allCouriers
          THEN [ok |-> FALSE, code |-> courier, err |-> NotDetected]
          ELSE IF code \in Registered
          THEN [ok |-> TRUE, code |-> code, err |-> Undefined]
          ELSE [ok |-> FALSE, code |-> code, err |-> NotRegistered]
  ELSE IF courier \in Registered
       THEN [ok |-> TRUE, code |-> courier, err |-> Undefined]
       ELSE [ok |-> FALSE, code |-> courier, err |-> NotRegistered]

\* The three signals of track(), and what a listener of a signal throws.
\* EventEmitter.emit calls the listeners synchronously, and a listener's
\* exception leaves emit().
Signals == {"track:start", "track:success", "track:error"}
ListenerError(sig) ==
  Err("Error", 0, CASE sig = "track:start" -> -11
                    [] sig = "track:success" -> -12
                    [] OTHER -> -13)

\* track, lines 43-66, up to the first call of next() (or of execute(), line
\* 118, for an empty chain)
TkTrack(courier, tn) ==
  /\ tk.pc \in {"idle", "done"}
  /\ LET r == Resolve(courier, tn)
         t == [IdleTracker(tk.chain, tk.provider) EXCEPT
                  !.tracks = tk.tracks + 1, !.courier = r.code, !.tn = tn,
                  !.terminalCalls = tk.terminalCalls,
                  !.throwing = tk.throwing]
     IN IF ~r.ok
        THEN tk' = [t EXCEPT !.pc = "done", !.out = Thrown1(r.err)]
        ELSE IF "track:start" \in tk.throwing
        THEN tk' = [t EXCEPT !.pc = "done", !.events = <<"track:start">>,
                             !.out = Thrown1(ListenerError("track:start"))]
        ELSE tk' = CallNext([t EXCEPT !.pc = "running",
                                      !.events = <<"track:start">>])
  /\ UNCHANGED <<batch, made, lim, now, tokenVars, breakerVars, retryVars, cacheVars>>

\* A middleware that only wraps next(): LoggerMiddleware.execute,
\* RateLimiterMiddleware.execute (limiter.schedule(() => next())), and the
\* hand-written middlewares of the tests
TkEnterPass ==
  /\ Running(PassThrough, "enter")
  /\ tk' = CallNext(SetTopPc(Logged(tk, <<"before", Top(tk).pos>>), "wait"))
  /\ UNCHANGED <<batch, made, lim, now, tokenVars, breakerVars, retryVars, cacheVars>>

TkReturnPass ==
  /\ Running(PassThrough, "wait") /\ Returned
  /\ tk' = Pop(Logged(tk, <<"after", Top(tk).pos>>), tk.ret)
  /\ UNCHANGED <<batch, made, lim, now, tokenVars, breakerVars, retryVars, cacheVars>>

\* RetryMiddleware.execute inside the chain
TkAfterLoop(t, r) ==
  IF r.pc = "calling"
  THEN CallNext(SetTopPc([t EXCEPT !.retry = r], "wait"))
  ELSE Pop(Logged([t EXCEPT !.retry = r], <<"after", Top(t).pos>>), r.out)

TkEnterRetry ==
  /\ Running({"retry"}, "enter")
  /\ tk' = TkAfterLoop(Logged(tk, <<"before", Top(tk).pos>>),
                       RetryLoop(IdleRetry(3, 1000), 0))
  /\ UNCHANGED <<batch, made, lim, now, tokenVars, breakerVars, retryVars, cacheVars>>

TkReturnRetry ==
  /\ Running({"retry"}, "wait") /\ Returned
  /\ IF tk.ret.kind = "value"
     THEN tk' = Pop(Logged(tk, <<"after", Top(tk).pos>>), tk.ret)
     ELSE LET r == RetryCatch(tk.retry, tk.ret.err)
          IN IF r.pc = "done"
             THEN tk' = Pop(Logged([tk EXCEPT !.retry = r],
                                   <<"after", Top(tk).pos>>), r.out)
             ELSE tk' = SetTopPc([tk EXCEPT !.retry = r, !.ret = NoRet],
                                 "sleeping")
  /\ UNCHANGED <<batch, made, lim, now, tokenVars, breakerVars, retryVars, cacheVars>>

TkWake ==
  /\ Running({"retry"}, "sleeping")
  /\ tk' = TkAfterLoop(tk, RetryLoop(tk.retry, tk.retry.attempt + 1))
  /\ UNCHANGED <<batch, made, lim, now, tokenVars, breakerVars, retryVars, cacheVars>>

\* CircuitBreakerMiddleware.execute inside the chain
TkEnterBreaker ==
  /\ Running({"circuitBreaker"}, "enter")
  /\ LET map == GetCircuit(tk.courier)
         circuit == map[tk.courier]
         t == Logged(tk, <<"before", Top(tk).pos>>)
     IN IF CbRejects(circuit)
        THEN /\ circuits' = map
             /\ tk' = Pop(t, Thrown1(Err("TrackingError", 0, 0)))
        ELSE /\ circuits' = [map EXCEPT ![tk.courier] = CbAdmit(circuit)]
             /\ tk' = CallNext(SetTopPc(t, "wait"))
  /\ UNCHANGED <<batch, made, lim, now, cbOpts, cbCall, cbHist, cbCalls,
                 tokenVars, retryVars, cacheVars>>

TkReturnBreaker ==
  /\ Running({"circuitBreaker"}, "wait") /\ Returned
  /\ circuits' = [circuits EXCEPT ![tk.courier] =
                    IF tk.ret.kind = "value" THEN CbOnSuccess(@)
                    ELSE CbOnFailure(@)]
  /\ tk' = Pop(Logged(tk, <<"after", Top(tk).pos>>), tk.ret)
  /\ UNCHANGED <<batch, made, lim, now, cbOpts, cbCall, cbHist, cbCalls,
                 tokenVars, retryVars, cacheVars>>

\* CacheMiddleware.execute inside the chain
TkEnterCache ==
  /\ Running({"cache"}, "enter")
  /\ LET key == GetCacheKey(<<tk.courier>>, tk.tn)
         cached == AdapterGet(cacheMap, key)
         t == Logged(tk, <<"before", Top(tk).pos>>)
     IN /\ cacheMap' = AdapterGetMap(cacheMap, key)
        /\ IF cached.found
           THEN tk' = Pop(t, Value(cached.value))
           ELSE tk' = CallNext(SetTopPc(t, "wait"))
  /\ UNCHANGED <<batch, made, lim, now, cacheTtl, cacheCall, cacheHist,
                 tokenVars, breakerVars, retryVars>>

TkReturnCache ==
  /\ Running({"cache"}, "wait") /\ Returned
  /\ cacheMap' = IF tk.ret.kind = "value"
                 THEN AdapterSet(cacheMap, GetCacheKey(<<tk.courier>>, tk.tn),
                                 tk.ret.val, cacheTtl)
                 ELSE CacheOnError(cacheMap, GetCacheKey(<<tk.courier>>, tk.tn),
                                   cacheTtl)
  /\ tk' = Pop(Logged(tk, <<"after", Top(tk).pos>>), tk.ret)
  /\ UNCHANGED <<batch, made, lim, now, cacheTtl, cacheCall, cacheHist,
                 tokenVars, breakerVars, retryVars>>

\* execute(): provider.track(trackingNumber, opts), line 61
TkTerminal ==
  /\ Running({"terminal"}, "enter")
  /\ LET n == tk.terminalCalls + 1
         under == [i \in 1..(Len(tk.stack) - 1) |-> tk.stack[i].pos]
         t == [Logged(tk, <<"terminal", 0>>) EXCEPT
                 !.terminalCalls = n, !.termLog = Append(@, under)]
     IN IF tk.provider = "mock"
        THEN \E ret \in {Value(n)} \cup {Thrown1(e) : e \in MockThrown(n)} :
               tk' = Pop(t, ret)
        ELSE \E d1 \in DataOutcomes(2 * n - 1), d2 \in DataOutcomes(2 * n) :
               /\ (d1.kind = "value" \/ d1.err.status # 401) => d2 = Value(2 * n)
               /\ tk' = Pop([t EXCEPT !.dataCalls = @ + BaseTrack(d1, d2).dataCalls,
                                       !.dataStatus = BaseTrack(d1, d2).status],
                            BaseTrack(d1, d2).ret)
  /\ UNCHANGED <<batch, made, lim, now, tokenVars, breakerVars, retryVars, cacheVars>>

\* track, lines 65-72, from the return of the chain: the signals emitted and
\* what track() settles with.  A listener of track:success that throws does
\* so inside the try, so the catch emits track:error and rethrows its error.
TrackSettle(ret, throwing) ==
  LET caught == IF ret.kind = "value"
                THEN Thrown1(ListenerError("track:success"))
                ELSE ret
  IN IF ret.kind = "value" /\ "track:success" \notin throwing
     THEN [events |-> <<"track:success">>, out |-> ret]
     ELSE [events |-> IF ret.kind = "value"
                      THEN <<"track:success", "track:error">>
                      ELSE <<"track:error">>,
           out |-> IF "track:error" \in throwing
                   THEN Thrown1(ListenerError("track:error"))
                   ELSE caught]

\* track, lines 66-72: the chain has returned or thrown.  ret keeps what the
\* chain ended in.
TkFinish ==
  /\ tk.pc = "running" /\ tk.stack = <<>> /\ Returned
  /\ tk' = [tk EXCEPT !.pc = "done",
                      !.out = TrackSettle(tk.ret, tk.throwing).out,
                      !.events = @ \o TrackSettle(tk.ret, tk.throwing).events]
  /\ UNCHANGED <<batch, made, lim, now, tokenVars, breakerVars, retryVars, cacheVars>>

\* trackBatch, lines 75-86.  One call; the items' track() calls run through
\* rateLimiter and circuitBreaker to the adapter, whose answer depends on the
\* tracking number.
BatchItems == [courier : CourierInputs, tn : TrackedNumbers]
BatchLists == UNION {[1..n -> BatchItems] : n \in 0..MaxItems}

IdleBatch == [pc |-> "idle", items |-> <<>>, st |-> <<>>, ret |-> <<>>,
              results |-> <<>>]

\* provider.track for item i: number "1" resolves, number "2" is rejected
\* with a ProviderError no retry applies to
Carrier(i, tn) ==
  IF tn = <<"1">> THEN Value(i) ELSE Thrown1(Err("ProviderError", 0, i))

\* lines 80-85: the entry of an item from what its track() settled with
BatchEntry_BothKeys(tn, settled) ==
  [trackingNumber |-> tn, has |-> {"result", "error"},
   result |-> settled.val, error |-> settled.err]
BatchEntry(tn, settled) ==
  IF settled.kind = "value"
  THEN [trackingNumber |-> tn, has |-> {"result"},
        result |-> settled.val, error |-> Undefined]
  ELSE [trackingNumber |-> tn, has |-> {"error"},
        result |-> 0,
        error |-> IF settled.err.cls = "undefined"
                  THEN Err("Error", 0, settled.err.id) ELSE settled.err]

\* lines 76-78: items.map calls track() for every item in order; each runs
\* to its first await, a failed resolution being a rejected promise at once
BatchStart(items) ==
  /\ batch.pc = "idle"
  /\ batch' = [pc |-> "running", items |-> items,
               st |-> [i \in 1..Len(items) |->
                        IF Resolve(items[i].courier, items[i].tn).ok
                        THEN "queued" ELSE "settled"],
               ret |-> [i \in 1..Len(items) |->
                         IF Resolve(items[i].courier, items[i].tn).ok
                         THEN NoRet
                         ELSE Thrown1(Resolve(items[i].courier, items[i].tn).err)],
               results |-> <<>>]
  /\ UNCHANGED <<now, tk, made, lim, tokenVars, breakerVars, retryVars, cacheVars>>

\* limiter.schedule starts the jobs in the order they were queued; the job
\* of item i is next(): CircuitBreakerMiddleware.execute up to its call of
\* next(), or to the throw of line 50
BatchEnter(i) ==
  /\ batch.pc = "running" /\ i \in 1..Len(batch.items)
  /\ batch.st[i] = "queued"
  /\ \A j \in 1..(i - 1) : batch.st[j] # "queued"
  /\ LET k == Resolve(batch.items[i].courier, batch.items[i].tn).code
         map == GetCircuit(k)
     IN IF CbRejects(map[k])
        THEN /\ circuits' = map
             /\ batch' = [batch EXCEPT
                            !.st[i] = "settled",
                            !.ret[i] = Thrown1(Err("TrackingError", 0, 0))]
        ELSE /\ circuits' = [map EXCEPT ![k] = CbAdmit(map[k])]
             /\ batch' = [batch EXCEPT !.st[i] = "inflight"]
  /\ UNCHANGED <<now, tk, made, lim, cbOpts, cbCall, cbHist, cbCalls,
                 tokenVars, retryVars, cacheVars>>

\* the adapter has answered item i: circuit-breaker.ts lines 54-66, then the
\* track() of the item settles
BatchSettle(i) ==
  /\ batch.pc = "running" /\ i \in 1..Len(batch.items)
  /\ batch.st[i] = "inflight"
  /\ LET k == Resolve(batch.items[i].courier, batch.items[i].tn).code
         r == Carrier(i, batch.items[i].tn)
     IN /\ circuits' = [circuits EXCEPT ![k] =
                          IF r.kind = "value" THEN CbOnSuccess(@)
                          ELSE CbOnFailure(@)]
        /\ batch' = [batch EXCEPT !.st[i] = "settled", !.ret[i] = r]
  /\ UNCHANGED <<now, tk, made, lim, cbOpts, cbCall, cbHist, cbCalls,
                 tokenVars, retryVars, cacheVars>>

\* lines 76 and 80-85: Promise.allSettled has resolved
BatchCollect ==
  /\ batch.pc = "running"
  /\ \A i \in 1..Len(batch.items) : batch.st[i] = "settled"
  /\ batch' = [batch EXCEPT
                 !.pc = "done",
                 !.results = [i \in 1..Len(batch.items) |->
                                BatchEntry(batch.items[i].tn, batch.ret[i])]]
  /\ UNCHANGED <<now, tk, made, lim, tokenVars, breakerVars, retryVars, cacheVars>>

TrackerTick ==
  /\ tk.pc \in {"idle", "done"}
  /\ Tick
  /\ UNCHANGED <<tokenVars, breakerVars, retryVars, cacheVars, trackerVars>>

\* failureThreshold / resetTimeoutMs given to createTracker (5 and 30000 are
\* the defaults of circuit-breaker.ts lines 30-31)
TrackerBreakerOptions ==
  {[failureThreshold |-> 1, resetTimeoutMs |-> 30000],
   [failureThreshold |-> 5, resetTimeoutMs |-> 30000]}

IdleTrackerVars ==
  tk = IdleTracker(<<>>, "mock") /\ batch = IdleBatch /\ made = NoTracker /\ lim = IdleLim

InitTracker ==
  /\ \E chain \in TrackerChains, provider \in ProviderKinds :
       tk = IdleTracker(chain, provider)
  /\ batch = IdleBatch
  /\ made = NoTracker /\ lim = IdleLim

(***************************************************************************)
(* Specifications                                                          *)
(***************************************************************************)
IdleToken == InitToken

InitT == now = 0 /\ InitToken /\ cbOpts \in {[failureThreshold |-> 5, resetTimeoutMs |-> 30000]}
         /\ IdleBreaker /\ IdleRetryVars /\ cacheTtl = 5 * 60 * 1000 /\ IdleCache
         /\ IdleTrackerVars
NextT ==
  \/ \E c \in Callers : TrackStart(c)
  \/ \E p \in 1..MaxRefresh : RefreshOk(p) \/ RefreshFail(p)
  \/ \E c \in Callers : AwaitDone(c) \/ FetchOk(c) \/ Fetch401(c) \/ FetchFail(c)
  \/ TokenTick
SpecToken == InitT /\ [][NextT]_vars

InitB == now = 0 /\ IdleToken /\ InitBreaker /\ IdleRetryVars
         /\ cacheTtl = 5 * 60 * 1000 /\ IdleCache /\ IdleTrackerVars
NextB ==
  \/ \E c \in CbCallers, k \in Keys : CbEnter(c, k)
  \/ \E c \in CbCallers : CbSuccess(c) \/ CbFailure(c)
  \/ BreakerTick
SpecBreaker == InitB /\ [][NextB]_vars

InitR == now = 0 /\ IdleToken /\ cbOpts \in {[failureThreshold |-> 5, resetTimeoutMs |-> 30000]}
         /\ IdleBreaker /\ InitRetry /\ cacheTtl = 5 * 60 * 1000 /\ IdleCache
         /\ IdleTrackerVars
NextR == RetryExecute \/ RetryNextOk \/ RetryNextFail \/ RetryWake
SpecRetry == InitR /\ [][NextR]_vars

InitC == now = 0 /\ IdleToken /\ cbOpts \in {[failureThreshold |-> 5, resetTimeoutMs |-> 30000]}
         /\ IdleBreaker /\ IdleRetryVars /\ InitCache /\ IdleTrackerVars
NextC ==
  \/ \E c \in CacheCallers, p \in CachePairs : CacheEnter(c, p[1], p[2])
  \/ \E c \in CacheCallers : CacheNextOk(c) \/ CacheNextFail(c)
  \/ CacheTick
SpecCache == InitC /\ [][NextC]_vars

InitK == now = 0 /\ IdleToken /\ cbOpts \in TrackerBreakerOptions
         /\ IdleBreaker /\ IdleRetryVars /\ cacheTtl = 5 * 60 * 1000 /\ IdleCache
         /\ InitTracker
NextK ==
  \/ tk.tracks < MaxTrackerTracks
       /\ \E courier \in CourierInputs, tn \in TrackedNumbers :
            TkTrack(courier, tn)
  \/ TkEnterPass \/ TkReturnPass
  \/ TkEnterRetry \/ TkReturnRetry \/ TkWake
  \/ TkEnterBreaker \/ TkReturnBreaker
  \/ TkEnterCache \/ TkReturnCache
  \/ TkTerminal \/ TkFinish
  \/ TrackerTick
SpecTracker == InitK /\ [][NextK]_vars

\* track() with listeners subscribed to its signals, some of which throw:
\* a tracker with no middleware or one hand-written middleware
SignalChains == {<<>>, <<"mw">>}

InitS == now = 0 /\ IdleToken /\ cbOpts \in {[failureThreshold |-> 5, resetTimeoutMs |-> 30000]}
         /\ IdleBreaker /\ IdleRetryVars /\ cacheTtl = 5 * 60 * 1000 /\ IdleCache
         /\ \E chain \in SignalChains, provider \in ProviderKinds,
               throwing \in SUBSET Signals :
               tk = [IdleTracker(chain, provider) EXCEPT !.throwing = throwing]
         /\ batch = IdleBatch /\ made = NoTracker /\ lim = IdleLim
NextS ==
  \/ tk.tracks < MaxTrackerTracks
       /\ \E courier \in CourierInputs, tn \in TrackedNumbers :
            TkTrack(courier, tn)
  \/ TkEnterPass \/ TkReturnPass
  \/ TkTerminal \/ TkFinish
SpecSignals == InitS /\ [][NextS]_vars

\* trackBatch() on a tracker of createTracker with rateLimiter and
\* circuitBreaker in front of the adapter
InitBt == now = 0 /\ IdleToken /\ cbOpts \in TrackerBreakerOptions
          /\ IdleBreaker /\ IdleRetryVars /\ cacheTtl = 5 * 60 * 1000 /\ IdleCache
          /\ IdleTrackerVars
NextBt ==
  \/ \E items \in BatchLists : BatchStart(items)
  \/ \E i \in 1..MaxItems : BatchEnter(i) \/ BatchSettle(i)
  \/ BatchCollect
SpecBatch == InitBt /\ [][NextBt]_vars

\* createTracker() and the first track() on the tracker it returns.  The
\* options given have at most MaxOptionsSet keys of options.middlewares set.
CreateInputs ==
  {o \in CreateTrackerOptions :
     Cardinality({m \in MiddlewareNames : o.middlewares[m] # "undefined"})
       <= MaxOptionsSet}

\* The adapters built are BaseProviders ("base"), or have track() replaced
\* as the tests do ("mock").
CreateTrackerCall(options, provider) ==
  /\ made.pc = "none"
  /\ made' = Created(options)
  /\ tk' = IdleTracker(CreateTracker(options).middleware, provider)
  /\ UNCHANGED <<batch, lim, now, tokenVars, breakerVars, retryVars, cacheVars>>

InitCr == now = 0 /\ IdleToken /\ cbOpts \in {[failureThreshold |-> 5, resetTimeoutMs |-> 30000]}
          /\ IdleBreaker /\ IdleRetryVars /\ cacheTtl = 5 * 60 * 1000 /\ IdleCache
          /\ IdleTrackerVars
NextCr ==
  \/ made.pc = "none" /\ \E options \in CreateInputs, provider \in ProviderKinds :
       CreateTrackerCall(options, provider)
  \/ made.pc = "created" /\ tk.tracks = 0
       /\ \/ \E courier \in Couriers : TkTrack(courier, <<"1">>)
          \/ \E tn \in TrackedNumbers \cup {<<"9">>} : TkTrack("auto", tn)
  \/ TkEnterPass \/ TkReturnPass
  \/ TkEnterRetry \/ TkReturnRetry \/ TkWake
  \/ TkEnterBreaker \/ TkReturnBreaker
  \/ TkEnterCache \/ TkReturnCache
  \/ TkTerminal \/ TkFinish
SpecCreate == InitCr /\ [][NextCr]_vars

\* track() calls for "ups" on the tracker of createTracker({middlewares:
\* {cache: true}}): rate limiter, retry, circuit breaker, cache.  One more
\* track() than elsewhere, so that a number can be cached, a failure counted
\* and the cached number asked for again.
InitCh == now = 0 /\ IdleToken /\ cbOpts \in TrackerBreakerOptions
          /\ IdleBreaker /\ IdleRetryVars /\ cacheTtl = 5 * 60 * 1000 /\ IdleCache
          /\ tk = IdleTracker(<<"rateLimiter", "retry", "circuitBreaker", "cache">>, "mock")
          /\ batch = IdleBatch /\ made = NoTracker /\ lim = IdleLim
NextCh ==
  \/ tk.tracks < MaxTrackerTracks + 1
       /\ \E tn \in TrackedNumbers : TkTrack("ups", tn)
  \/ TkEnterPass \/ TkReturnPass
  \/ TkEnterRetry \/ TkReturnRetry \/ TkWake
  \/ TkEnterBreaker \/ TkReturnBreaker
  \/ TkEnterCache \/ TkReturnCache
  \/ TkTerminal \/ TkFinish
  \/ TrackerTick
SpecCached == InitCh /\ [][NextCh]_vars

\* Calls of track() for two couriers through rate limiter and retry; the
\* carrier answers with a result or with 429
InitL == now = 0 /\ IdleToken /\ cbOpts \in {[failureThreshold |-> 5, resetTimeoutMs |-> 30000]}
         /\ IdleBreaker /\ IdleRetryVars /\ cacheTtl = 5 * 60 * 1000 /\ IdleCache
         /\ IdleTrackerVars
NextL ==
  \/ \E c \in 1..NLimCallers, code \in {"fedex", "ups"} : LimExecute(c, code)
  \/ \E c \in 1..NLimCallers : LimLaunch(c) \/ LimWake(c)
  \/ \E c \in 1..NLimCallers :
       \E ret \in {Value(c), Thrown1(Err("AxiosError", 429, c))} :
         LimCarrierDone(c, ret)
  \/ LimTick
SpecLimiter == InitL /\ [][NextL]_vars


(***************************************************************************)
(* Properties                                                              *)
(***************************************************************************)
PendingRefreshes == {p \in 1..Len(promises) : promises[p].state = "pending"}
Waiting(c) == req[c].pc \in {"ownWait", "joinWait"}

\* C1: single-flight token refresh.  At most one token request is in flight
\* at any time, and the one in flight is the promise later callers join; the
\* getToken() calls made before the first token request is answered (so with
\* no valid token cached) have caused exactly one token request, which all of
\* them await; and a caller that awaited a refresh continues with the token
\* of exactly that request.
C1_SingleFlight ==
  /\ Cardinality(PendingRefreshes) <= 1
  /\ \A p \in PendingRefreshes : tokenPromise = p
  /\ \A p \in 1..Len(promises) :
       Cardinality({c \in Callers : req[c].pc = "ownWait" /\ req[c].p = p}) <= 1
  /\ (\E c \in Callers : req[c].pc # "idle") /\ PendingRefreshes = 1..Len(promises)
       => /\ Len(promises) = 1
          /\ \A c \in Callers : req[c].pc # "idle" => Waiting(c) /\ req[c].p = 1
  /\ \A c \in Callers :
       req[c].pc = "fetch" /\ req[c].from # 0
         => /\ promises[req[c].from].state = "resolved"
            /\ req[c].tok = promises[req[c].from].token
            /\ req[c].tok = req[c].from

\* Two callers that called getToken() concurrently both continue with the
\* token of the one request made
C1_Witness ==
  /\ Len(promises) = 1
  /\ req[1].pc = "fetch" /\ req[2].pc = "fetch"
  /\ req[1].from = 1 /\ req[2].from = 1

CbEntering(c, k) ==
  /\ cbCalls' = cbCalls + 1
  /\ cbCall'[c].n = cbCalls'
  /\ cbCall'[c].key = k

CbCompleting(c, k) ==
  /\ cbCall[c].pc = "inflight" /\ cbCall[c].key = k
  /\ cbCall'[c].pc = "done"

\* C2: breaker trip.  For every failureThreshold T >= 1 and key k: the
\* failing call that makes the number of consecutive failures of k reach T (or
\* more) leaves the circuit OPEN; while the last T or more completed calls of
\* k have failed and less than resetTimeoutMs has passed since the last
\* failure the circuit is OPEN, and every call for k made then ends at once
\* with the breaker-open error, next() not called.
C2_BreakerTripStep ==
  \A k \in Keys :
    /\ \A c \in CbCallers :
         CbCompleting(c, k) /\ cbCall'[c].out = "failed"
           /\ cbHist'[k].consec >= cbOpts.failureThreshold
           => circuits'[k].state = "OPEN"
    /\ (k \in DOMAIN circuits' /\ cbHist'[k].consec >= cbOpts.failureThreshold
          /\ now' - circuits'[k].lastFailureTime < cbOpts.resetTimeoutMs)
         => circuits'[k].state = "OPEN"
    /\ \A c \in CbCallers :
         (CbEntering(c, k) /\ k \in DOMAIN circuits
            /\ cbHist[k].consec >= cbOpts.failureThreshold
            /\ now - circuits[k].lastFailureTime < cbOpts.resetTimeoutMs)
           => cbCall'[c].pc = "done" /\ cbCall'[c].out = "rejected"
C2_BreakerTrip == [][C2_BreakerTripStep]_vars

\* With failureThreshold 2: two consecutive failures, then a call rejected
C2_Witness ==
  \E c \in CbCallers :
    /\ cbOpts.failureThreshold >= 2
    /\ cbCall[c].out = "rejected"
    /\ cbHist[cbCall[c].key].consec = cbOpts.failureThreshold

\* C3: breaker reset.  A call for a key whose circuit is OPEN, made when
\* now - lastFailureTime >= resetTimeoutMs, is passed downstream and makes the
\* circuit HALF_OPEN; when that call succeeds the circuit is CLOSED with
\* failure count 0; and a circuit becomes HALF_OPEN in no other step (not by
\* the clock, not by a completion).
C3_BreakerResetStep ==
  \A k \in Keys :
    /\ \A c \in CbCallers :
         (CbEntering(c, k) /\ k \in DOMAIN circuits
            /\ circuits[k].state = "OPEN"
            /\ now - circuits[k].lastFailureTime >= cbOpts.resetTimeoutMs)
           => /\ cbCall'[c].pc = "inflight"
              /\ circuits'[k].state = "HALF_OPEN"
    /\ \A c \in CbCallers :
         CbCompleting(c, k) /\ cbCall[c].probe /\ cbCall'[c].out = "ok"
           => circuits'[k].state = "CLOSED" /\ circuits'[k].failures = 0
    /\ (k \in DOMAIN circuits' /\ circuits'[k].state = "HALF_OPEN"
          /\ (k \in DOMAIN circuits => circuits[k].state # "HALF_OPEN"))
         => /\ k \in DOMAIN circuits /\ circuits[k].state = "OPEN"
            /\ now - circuits[k].lastFailureTime >= cbOpts.resetTimeoutMs
            /\ \E c \in CbCallers : CbEntering(c, k) /\ cbCall'[c].pc = "inflight"
C3_BreakerReset == [][C3_BreakerResetStep]_vars

\* A probe call let through after the timeout has succeeded and closed the
\* circuit
C3_Witness ==
  \E c \in CbCallers :
    /\ cbCall[c].probe /\ cbCall[c].out = "ok"
    /\ circuits[cbCall[c].key].state = "CLOSED"
    /\ circuits[cbCall[c].key].failures = 0
    /\ cbHist[cbCall[c].key].lastEv = "ok"


RetryFailures == Len(rt.errs)

\* After its failure number i, execute went on to sleep and call next() again
Retried(i) == rt.calls > i \/ (rt.calls = i /\ rt.pc = "sleeping")

\* The failure carries an HTTP status of 429 or >= 500
TransientStatus(err) == err.status = 429 \/ err.status >= 500

\* C4: retry classification.  A failure of an attempt that is not the last
\* permitted one is retried if and only if it carries HTTP status 429 or
\* >= 500; any other failure (another 4xx, no status) ends execute at once
\* with that error, no delay slept for it, so that a first failure of this
\* kind means exactly one call of next(); one 429 / 5xx failure followed by a
\* success yields that success after exactly 2 calls of next().
C4_RetryClassification ==
  /\ \A i \in 1..RetryFailures :
       i < rt.maxAttempts => (Retried(i) <=> TransientStatus(rt.errs[i]))
  /\ \A i \in 1..RetryFailures :
       ~TransientStatus(rt.errs[i])
         => /\ i = RetryFailures /\ rt.pc = "done" /\ rt.calls = i
            /\ rt.out = [kind |-> "error", val |-> 0, err |-> rt.errs[i]]
            /\ Len(rt.slept) = i - 1
  /\ (RetryFailures = 1 /\ rt.pc = "done" /\ rt.out.kind = "value")
       => TransientStatus(rt.errs[1]) /\ rt.calls = 2 /\ rt.out.val = 2

\* A 429 followed by a success
C4_Witness ==
  /\ rt.pc = "done" /\ rt.out.kind = "value" /\ rt.calls = 2
  /\ rt.errs = <<Err("AxiosError", 429, 1)>>

\* C5: retry cap.  execute calls next() at most maxAttempts times (never, for
\* maxAttempts <= 0); when the attempt number maxAttempts fails, execute
\* rejects with the very error of that attempt, and has slept only between
\* attempts: no delay after the final failure.
C5_RetryCap ==
  /\ rt.calls <= (IF rt.maxAttempts > 0 THEN rt.maxAttempts ELSE 0)
  /\ (RetryFailures >= 1 /\ RetryFailures = rt.maxAttempts)
       => /\ rt.pc = "done"
          /\ rt.out = [kind |-> "error", val |-> 0,
                       err |-> rt.errs[RetryFailures]]
          /\ rt.out.err.id = rt.calls
          /\ Len(rt.slept) = rt.maxAttempts - 1

\* Three 5xx / 429 failures with maxAttempts 3
C5_Witness ==
  /\ rt.maxAttempts = 3 /\ rt.pc = "done" /\ rt.calls = 3
  /\ rt.out.kind = "error" /\ TransientStatus(rt.out.err)
  /\ Len(rt.slept) = 2

\* C6: every call of next() runs the rest of the chain.  Stated on the
\* terminal calls: whenever provider.track() is called, each middleware of the
\* chain, positions 1..n in order, is on the call stack below it.
C6_NextRunsRemainder ==
  \A j \in 1..Len(tk.termLog) :
    tk.termLog[j] = [i \in 1..Len(tk.chain) |-> i]

\* With the chain rateLimiter, retry, circuitBreaker and a provider that fails
\* with a 500 AxiosError: the second attempt of retry has called
\* provider.track() with only rateLimiter and retry around it
C6_Witness ==
  /\ tk.chain = <<"rateLimiter", "retry", "circuitBreaker">>
  /\ tk.provider = "mock"
  /\ tk.termLog = <<<<1, 2, 3>>, <<1, 2>>>>

\* The hook sequence of the onion: before 1..n, the terminal call, after n..1
OnionLog(n) ==
  [j \in 1..(2 * n + 1) |->
     IF j <= n THEN <<"before", j>>
     ELSE IF j = n + 1 THEN <<"terminal", 0>>
     ELSE <<"after", 2 * n + 2 - j>>]

\* C7: onion ordering.  When every middleware of the chain has called next()
\* once (so the terminal call ran once), one track() has executed
\* M1.before .. Mn.before, the terminal call, Mn.after .. M1.after, in
\* exactly that order.
C7_OnionOrder ==
  (tk.pc = "done" /\ Len(tk.termLog) = 1)
    => tk.log = OnionLog(Len(tk.chain))

\* The chain rateLimiter, retry, circuitBreaker, cache, logger, run through
C7_Witness ==
  /\ tk.pc = "done" /\ Len(tk.termLog) = 1 /\ Len(tk.chain) = 5
  /\ tk.log = OnionLog(5)

\* C8: transient transport errors are retried through the pipeline.  In a
\* tracker with retry in its chain around a BaseProvider adapter, a track()
\* that fails because the carrier data call failed with 429 or 5xx has made
\* the carrier call once per permitted attempt (3).
C8_TransientRetried ==
  (/\ tk.pc = "done" /\ tk.provider = "base"
   /\ \E i \in 1..Len(tk.chain) : tk.chain[i] = "retry"
   /\ tk.out.kind = "error"
   /\ (tk.dataStatus = 429 \/ tk.dataStatus >= 500))
    => Len(tk.termLog) = 3

\* The default chain around a BaseProvider adapter: the data call was answered
\* 429, and track() has failed with a ProviderError after one call of
\* provider.track()
C8_Witness ==
  /\ tk.chain = <<"rateLimiter", "retry", "circuitBreaker">>
  /\ tk.provider = "base" /\ tk.pc = "done"
  /\ tk.dataStatus = 429 /\ tk.dataCalls = 1
  /\ tk.out.kind = "error" /\ tk.out.err.cls = "ProviderError"
  /\ Len(tk.termLog) = 1 /\ tk.retry.calls = 1

CacheEntering(c, p) ==
  /\ cacheHist'.started = cacheHist.started + 1
  /\ cacheCall'[c].n = cacheHist'.started
  /\ cacheCall'[c].courier = p[1] /\ cacheCall'[c].tn = p[2]

CacheCompleting(c) ==
  /\ cacheCall[c].pc = "inflight" /\ cacheCall'[c].pc = "done"

\* C9: cache idempotence.  A call made after a call for the same
\* {courierCode, trackingNumber} has returned successfully, no later than ttl
\* after that return, calls downstream not at all and returns the value that
\* call returned; a call for a pair no call has returned successfully for
\* calls downstream itself, whatever is cached for other pairs.
C9_CacheIdempotenceStep ==
  \A c \in CacheCallers, p \in CachePairs :
    CacheEntering(c, p)
      => /\ (cacheHist.last[p].has /\ now <= cacheHist.last[p].at + cacheTtl)
              => /\ cacheCall'[c].pc = "done"
                 /\ cacheCall'[c].out = Value(cacheHist.last[p].val)
                 /\ cacheCall'[c].down = 0
                 /\ cacheHist'.down = cacheHist.down
         /\ ~cacheHist.last[p].has
              => /\ cacheCall'[c].pc = "inflight"
                 /\ cacheHist'.down = cacheHist.down + 1
C9_CacheIdempotence == [][C9_CacheIdempotenceStep]_vars

\* The first call ever made for courier "ups:1", number "2" has returned,
\* without a downstream call, what the call for courier "ups", number "1:2"
\* had returned
C9_Witness ==
  \E c \in CacheCallers :
    /\ cacheCall[c].pc = "done" /\ cacheCall[c].down = 0
    /\ cacheCall[c].courier = <<"ups", ":", "1">> /\ cacheCall[c].tn = <<"2">>
    /\ ~cacheHist.last[<<cacheCall[c].courier, cacheCall[c].tn>>].has
    /\ cacheHist.last[<<<<"ups">>, <<"1", ":", "2">>>>].has
    /\ cacheCall[c].out = Value(cacheHist.last[<<<<"ups">>, <<"1", ":", "2">>>>].val)

\* C10: the cache is populated only by success.  A call that missed and
\* whose downstream call succeeds has stored that result under its key when it
\* returns it; when downstream fails the call rejects with that error and the
\* cache is as it was; every entry holds the result of a successful
\* downstream call for its pair; and a call that finds no entry for its key
\* calls downstream.
C10_PopulatedBySuccessStep ==
  /\ \A c \in CacheCallers :
       CacheCompleting(c) =>
         LET key == cacheCall[c].courier \o <<":">> \o cacheCall[c].tn
         IN /\ cacheCall'[c].out.kind = "error"
                 => /\ cacheMap' = cacheMap
                    /\ cacheCall'[c].out.err.id = cacheCall[c].down
            /\ cacheCall'[c].out.kind = "value"
                 => /\ key \in DOMAIN cacheMap'
                    /\ cacheMap'[key].value = cacheCall'[c].out.val
                    /\ cacheCall'[c].out.val = cacheCall[c].down
  /\ \A key \in DOMAIN cacheMap' :
       \E p \in CachePairs :
         /\ key = p[1] \o <<":">> \o p[2]
         /\ cacheHist'.last[p].has
         /\ cacheMap'[key].value = cacheHist'.last[p].val
  /\ \A c \in CacheCallers, p \in CachePairs :
       CacheEntering(c, p) /\ (p[1] \o <<":">> \o p[2]) \notin DOMAIN cacheMap
         => cacheCall'[c].pc = "inflight"
C10_PopulatedBySuccess == [][C10_PopulatedBySuccessStep]_vars

\* A call has failed, nothing is cached for its pair, and the next call for
\* the pair is calling downstream
C10_Witness ==
  \E c, d \in CacheCallers :
    /\ cacheCall[c].pc = "done" /\ cacheCall[c].out.kind = "error"
    /\ cacheCall[d].pc = "inflight" /\ cacheCall[d].n > cacheCall[c].n
    /\ cacheCall[d].courier = cacheCall[c].courier
    /\ cacheCall[d].tn = cacheCall[c].tn
    /\ DOMAIN cacheMap = {}


\* A step in which caller c calls getToken(): at the start of a track(), or
\* for the repeated data call after a 401
CallsGetToken(c) ==
  \/ tracksStarted' = tracksStarted + 1 /\ req'[c] # req[c]
  \/ req[c].pc = "fetch" /\ req'[c].pc # "done" /\ req'[c] # req[c]

\* C15: reactive re-auth on 401.  A data call ends the track() (result or
\* failure) unless it is the first data call and fails with 401: then the
\* cached token is dropped, getToken() is called (here: a refresh is awaited)
\* and the data call is made once more; after the repeated call the track()
\* always ends, a 401 included.  One track() makes at most 2 data calls.
C15_ReauthStep ==
  \A c \in Callers :
    (req[c].pc = "fetch" /\ req'[c] # req[c])
      => \/ req'[c].pc = "done"
         \/ /\ req[c].phase = 1 /\ req'[c].phase = 2
            /\ tokenCache' = NoToken
            /\ Waiting(c)'
            /\ req'[c].calls = req[c].calls /\ req[c].calls = 1
C15_Reauth == [][C15_ReauthStep]_vars

\* A track() has made a second data call after a second token request, and
\* ended on a second 401
C15_Witness ==
  \E c \in Callers :
    /\ req[c].pc = "done" /\ req[c].calls = 2 /\ Len(promises) = 2
    /\ req[c].cause = [at |-> "data", status |-> 401]

\* C16: authentication failures are reported as AuthenticationError.  A
\* track() that ends because the token request failed, or because the data
\* call failed with 401 again after one refresh and repeat, rejects with an
\* AuthenticationError.
C16_AuthErrorReported ==
  \A c \in Callers :
    (/\ req[c].pc = "done"
     /\ \/ req[c].cause.at = "token"
        \/ req[c].cause = [at |-> "data", status |-> 401])
      => req[c].out = "AuthenticationError"

\* A track() whose token request failed has rejected with a ProviderError
C16_Witness ==
  \E c \in Callers :
    /\ req[c].pc = "done" /\ req[c].cause.at = "token"
    /\ req[c].out = "ProviderError"

\* C17: a failed refresh does not poison the adapter.  The failed token
\* request leaves tokenCache as it was; every caller awaiting it ends with
\* the failure, the caller that started it nulling tokenPromise; tokenPromise
\* never stays on a settled promise once that caller has resumed; and a
\* getToken() that finds tokenPromise null and no valid token starts a new
\* token request.
C17_NoPoisonStep ==
  /\ \A p \in 1..Len(promises) :
       (promises[p].state = "pending" /\ promises'[p].state = "rejected")
         => tokenCache' = tokenCache
  /\ \A c \in Callers :
       (Waiting(c) /\ promises[req[c].p].state = "rejected" /\ req'[c] # req[c])
         => /\ req'[c].pc = "done" /\ req'[c].out # "ok"
            /\ req'[c].cause.at = "token"
            /\ req[c].pc = "ownWait" => tokenPromise' = 0
  /\ (tokenPromise' # 0 /\ promises'[tokenPromise'].state # "pending")
       => \E c \in Callers : req'[c].pc = "ownWait" /\ req'[c].p = tokenPromise'
  /\ \A c \in Callers :
       (CallsGetToken(c) /\ tokenPromise = 0
          /\ ~(tokenCache'.has /\ now < tokenCache'.expiresAt))
         => /\ req'[c].pc = "ownWait"
            /\ promises' = Append(promises, [state |-> "pending", token |-> 0,
                                             status |-> 0])
            /\ tokenPromise' = Len(promises')
C17_NoPoison == [][C17_NoPoisonStep]_vars

\* The first token request failed, the second succeeded and a caller has its
\* token
C17_Witness ==
  /\ Len(promises) = 2
  /\ promises[1].state = "rejected" /\ promises[2].state = "resolved"
  /\ \E c \in Callers : req[c].pc = "fetch" /\ req[c].from = 2 /\ req[c].tok = 2

\* C18: token reuse.  A getToken() at the start of a track(), made while a
\* token is cached and now is more than the safety buffer before its expiry,
\* returns the cached token and makes no token request.
C18_TokenReuseStep ==
  \A c \in Callers :
    (/\ tracksStarted' = tracksStarted + 1 /\ req'[c] # req[c]
     /\ tokenCache.has /\ now < tokenCache.expiry - TOKEN_BUFFER_MS)
      => /\ req'[c].pc = "fetch" /\ req'[c].tok = tokenCache.token
         /\ req'[c].from = 0
         /\ promises' = promises /\ tokenPromise' = tokenPromise
         /\ tokenCache' = tokenCache
C18_TokenReuse == [][C18_TokenReuseStep]_vars

\* Two track() calls one after the other, both done, one token request
C18_Witness ==
  /\ tracksStarted = 2 /\ Len(promises) = 1
  /\ req[1].pc = "done" /\ req[1].out = "ok" /\ req[1].calls = 1
  /\ req[2].pc = "idle"

\* C19: a failed probe reopens the breaker.  For every failureThreshold >= 1
\* and key k: a call that fails while the circuit of k is HALF_OPEN leaves it
\* OPEN with lastFailureTime the time of that failure; a circuit that is
\* HALF_OPEN always holds at least failureThreshold failures; and a call for
\* k made while the circuit is OPEN and less than resetTimeoutMs after
\* lastFailureTime ends at once with the breaker-open error.
C19_ProbeFailureStep ==
  \A k \in Keys :
    /\ \A c \in CbCallers :
         (CbCompleting(c, k) /\ cbCall'[c].out = "failed"
            /\ circuits[k].state = "HALF_OPEN")
           => /\ circuits'[k].state = "OPEN"
              /\ circuits'[k].lastFailureTime = now
    /\ (k \in DOMAIN circuits /\ circuits[k].state = "HALF_OPEN")
         => circuits[k].failures >= cbOpts.failureThreshold
    /\ \A c \in CbCallers :
         (CbEntering(c, k) /\ k \in DOMAIN circuits
            /\ circuits[k].state = "OPEN"
            /\ now - circuits[k].lastFailureTime < cbOpts.resetTimeoutMs)
           => /\ cbCall'[c].pc = "done" /\ cbCall'[c].out = "rejected"
              /\ circuits'[k] = circuits[k]
C19_ProbeFailure == [][C19_ProbeFailureStep]_vars

\* With failureThreshold 2, the probe let through after the timeout has
\* failed, and the circuit is OPEN again from the time of that failure
C19_Witness ==
  \E c \in CbCallers :
    /\ cbOpts.failureThreshold = 2
    /\ cbCall[c].probe /\ cbCall[c].out = "failed"
    /\ circuits[cbCall[c].key].state = "OPEN"
    /\ circuits[cbCall[c].key].lastFailureTime = now
    /\ now >= cbOpts.resetTimeoutMs

\* C20: only consecutive failures count.  A call that succeeds sets the
\* failure counter of its key to 0; the counter always equals the number of
\* failed calls of the key completed since its last success; a circuit
\* becomes OPEN only by a failure that brings that number to failureThreshold
\* or more; so with failureThreshold >= 2 a failure that follows a success
\* leaves the circuit CLOSED.
C20_ConsecutiveOnlyStep ==
  \A k \in Keys :
    /\ \A c \in CbCallers :
         (CbCompleting(c, k) /\ cbCall'[c].out = "ok")
           => circuits'[k].failures = 0 /\ circuits'[k].state = "CLOSED"
    /\ k \in DOMAIN circuits' => circuits'[k].failures = cbHist'[k].consec
    /\ (k \in DOMAIN circuits' /\ circuits'[k].state = "OPEN"
          /\ (k \in DOMAIN circuits => circuits[k].state # "OPEN"))
         => /\ cbHist'[k].lastEv = "failed"
            /\ cbHist'[k].consec >= cbOpts.failureThreshold
            /\ \E c \in CbCallers : CbCompleting(c, k)
    /\ \A c \in CbCallers :
         (CbCompleting(c, k) /\ cbCall'[c].out = "failed"
            /\ cbHist[k].lastEv = "ok" /\ cbOpts.failureThreshold >= 2)
           => circuits'[k].state = "CLOSED" /\ circuits'[k].failures = 1
C20_ConsecutiveOnly == [][C20_ConsecutiveOnlyStep]_vars

\* With failureThreshold 2: two calls of one key have failed, a success
\* completed between them, and the circuit is CLOSED with one failure counted
C20_Witness ==
  \E k \in Keys :
    /\ cbOpts.failureThreshold = 2
    /\ \A c \in CbCallers :
         cbCall[c].pc = "done" /\ cbCall[c].key = k /\ cbCall[c].out = "failed"
    /\ cbCalls = 3
    /\ circuits[k].state = "CLOSED" /\ circuits[k].failures = 1

\* C12: fail fast on resolution.  A track() given a courier code nothing is
\* registered for, or no courier code and a tracking number no registered
\* grammar matches, rejects at once, with one error for the first case and
\* another for the second: no middleware is entered, no adapter track() is
\* called, and neither the circuits nor the cache change.
C12_FailFastStep ==
  /\ NotRegistered # NotDetected
  /\ \A courier \in CourierInputs, tn \in TrackedNumbers :
       (/\ TkTrack(courier, tn)
        /\ \/ courier \notin Registered \cup {"auto"}
           \/ courier = "auto" /\ tn \notin Detectable)
         => /\ tk'.pc = "done"
            /\ tk'.out = Thrown1(IF courier = "auto" THEN NotDetected
                                 ELSE NotRegistered)
            /\ tk'.stack = <<>> /\ tk'.index = 0
            /\ tk'.log = <<>> /\ tk'.termLog = <<>>
            /\ tk'.terminalCalls = tk.terminalCalls /\ tk'.dataCalls = 0
            /\ circuits' = circuits /\ cacheMap' = cacheMap
  /\ (tk'.pc = "done" /\ tk'.out \in {Thrown1(NotRegistered), Thrown1(NotDetected)})
       => tk'.log = <<>> /\ tk'.termLog = <<>>
C12_FailFast == [][C12_FailFastStep]_vars

\* After a track() that went through a chain of middlewares to the adapter,
\* a track() without courier code for a number no grammar matches has
\* rejected with nothing entered
C12_Witness ==
  /\ tk.pc = "done" /\ tk.tracks = 2 /\ tk.terminalCalls = 1
  /\ tk.chain # <<>>
  /\ tk.courier = "auto" /\ tk.out = Thrown1(NotDetected)
  /\ tk.log = <<>> /\ tk.termLog = <<>>

\* C13: signals per request.  Every track() emits track:start once before
\* dispatch, and when it has settled exactly one more signal: track:success
\* if it resolved, track:error if it rejected.
C13_SignalsPerRequest ==
  /\ tk.pc = "running" => tk.events = <<"track:start">>
  /\ tk.pc = "done"
       => tk.events = <<"track:start",
                        IF tk.out.kind = "value" THEN "track:success"
                        ELSE "track:error">>

\* A track() has rejected without any signal
C13_Witness ==
  /\ tk.pc = "done" /\ tk.out.kind = "error" /\ tk.events = <<>>

\* C14: signal delivery cannot alter the dispatch outcome.  Whatever the
\* listeners of the three signals do, a track() that was resolved to an
\* adapter settles with what its chain ended in, and a track() whose chain
\* returned a result has not emitted track:error.
C14_SignalsCannotAlter ==
  (tk.pc = "done" /\ tk.events # <<>>)
    => /\ tk.out = tk.ret
       /\ tk.ret.kind = "value"
            => \A i \in 1..Len(tk.events) : tk.events[i] # "track:error"

\* The chain returned a result, a listener of track:success threw, and
\* track() has emitted track:error and rejected with the listener's error
C14_Witness ==
  /\ tk.pc = "done" /\ tk.ret.kind = "value"
  /\ tk.out = Thrown1(ListenerError("track:success"))
  /\ tk.events = <<"track:start", "track:success", "track:error">>

\* What the track() of item i of the batch settles with when no other item
\* is tracked: the resolution error, or the adapter's answer
AloneRet(i) ==
  LET r == Resolve(batch.items[i].courier, batch.items[i].tn)
  IN IF r.ok THEN Carrier(i, batch.items[i].tn) ELSE Thrown1(r.err)

\* The items before item i that were resolved to the adapter code k and
\* that the adapter rejected
FailedBefore(i, k) ==
  {j \in 1..(i - 1) :
     /\ Resolve(batch.items[j].courier, batch.items[j].tn).ok
     /\ Resolve(batch.items[j].courier, batch.items[j].tn).code = k
     /\ Carrier(j, batch.items[j].tn).kind = "error"}

\* The list trackBatch resolved with has the length and order of the items,
\* entry i carrying items[i].trackingNumber and one of result and error
BatchShape ==
  /\ Len(batch.results) = Len(batch.items)
  /\ \A i \in 1..Len(batch.items) :
       /\ batch.results[i].trackingNumber = batch.items[i].tn
       /\ batch.results[i].has \in {{"result"}, {"error"}}
       /\ batch.results[i].has = {"result"} <=> batch.ret[i].kind = "value"

C21_PerKeyStep ==
  /\ \A c \in CbCallers, k \in Keys :
       (cbCall'[c] # cbCall[c] /\ cbCall'[c].key = k)
         => \A k2 \in Keys \ {k} :
              /\ k2 \in DOMAIN circuits' <=> k2 \in DOMAIN circuits
              /\ k2 \in DOMAIN circuits => circuits'[k2] = circuits[k2]
  /\ \A c \in CbCallers, k \in Keys :
       (CbEntering(c, k) /\ cbCall'[c].out = "rejected")
         => k \in DOMAIN circuits /\ circuits[k].state = "OPEN"
C21_PerKey == [][C21_PerKeyStep]_vars

\* The circuit of ups is OPEN, and the next call, for fedex, made after the
\* failure that opened it, was let through and has succeeded
C21_Witness ==
  /\ "ups" \in DOMAIN circuits /\ circuits["ups"].state = "OPEN"
  /\ cbHist["ups"].lastEv = "failed"
  /\ cbCall[1].key = "fedex" /\ cbCall[1].n = 2 /\ cbCall[1].out = "ok"
  /\ cbCall[2].pc = "idle"

\* C22: backoff schedule, as amended.  execute sleeps only between attempts,
\* never before the first: when attempt n (0-indexed) is being made exactly n
\* delays have been slept, and the delay slept before attempt n >= 1 is
\* baseDelayMs * 2^(n-1), that is baseDelayMs * 2^m after failed attempt m.
C22_BackoffSchedule ==
  /\ \A i \in 1..Len(rt.slept) :
       rt.slept[i] = rt.baseDelayMs * 2 ^ (i - 1)
  /\ rt.pc = "idle" => rt.slept = <<>>
  /\ rt.pc = "calling" => rt.attempt = rt.calls - 1 /\ Len(rt.slept) = rt.attempt
  /\ rt.pc = "sleeping" => Len(rt.slept) = rt.attempt + 1
  /\ rt.pc = "done" => Len(rt.slept) = IF rt.calls = 0 THEN 0 ELSE rt.calls - 1

\* The third attempt is being made after delays of 1000 and 2000 ms
C22_Witness ==
  /\ rt.pc = "calling" /\ rt.attempt = 2 /\ rt.baseDelayMs = 1000
  /\ rt.slept = <<1000, 2000>>

\* C22 as stated: the delay slept before attempt n (0-indexed, n >= 1) is
\* baseDelayMs * 2^n.
C22_BackoffBeforeAttempt ==
  \A n \in 1..Len(rt.slept) : rt.slept[n] = rt.baseDelayMs * 2 ^ n

\* The error CircuitBreakerMiddleware throws for an OPEN circuit
BreakerOpenError == Err("TrackingError", 0, 0)

\* The number of times the middleware at position pos was entered
Entered(t, pos) ==
  Cardinality({i \in 1..Len(t.log) : t.log[i] = <<"before", pos>>})

\* C23: the breaker-open error is never retried.  When RetryMiddleware
\* (registered before the breaker) gets the breaker-open error from next(),
\* it rethrows that error at once: one attempt, no delay slept, the breaker
\* not entered again; and a track() that ends with the breaker-open error
\* has entered the breaker once and called no adapter.
C23_OpenNotRetriedStep ==
  /\ (Running({"retry"}, "wait") /\ tk.ret = Thrown1(BreakerOpenError)
        /\ tk' # tk)
       => /\ tk'.ret = tk.ret
          /\ tk'.stack = SubSeq(tk.stack, 1, Len(tk.stack) - 1)
          /\ tk'.retry.calls = 1 /\ tk'.retry.slept = <<>>
          /\ tk'.retry.out = tk.ret
          /\ tk'.index = tk.index
  /\ (tk'.pc = "done" /\ tk'.out = Thrown1(BreakerOpenError))
       => /\ \A pos \in 1..Len(tk'.chain) :
               tk'.chain[pos] = "circuitBreaker" => Entered(tk', pos) = 1
          /\ tk'.termLog = <<>>
          /\ tk'.retry.slept = <<>> /\ tk'.retry.calls <= 1
C23_OpenNotRetried == [][C23_OpenNotRetriedStep]_vars

\* With retry registered before the breaker: a track() has ended with the
\* breaker-open error after one attempt of retry
C23_Witness ==
  /\ tk.pc = "done" /\ tk.out = Thrown1(BreakerOpenError)
  /\ \E i, j \in 1..Len(tk.chain) :
       i < j /\ tk.chain[i] = "retry" /\ tk.chain[j] = "circuitBreaker"
  /\ tk.retry.calls = 1 /\ tk.retry.pc = "done"

\* C24: errors propagate unchanged.  An error only originates in the
\* adapter call or in the breaker's rejection; a middleware whose next() has
\* rejected rethrows the same error to the middleware below it, unless it is
\* retry going to sleep before another attempt; and track() rejects with the
\* error the chain ended in.
C24_PropagateStep ==
  /\ (tk.pc = "running" /\ tk.ret.kind = "error" /\ tk' # tk)
       => \/ /\ tk.stack # <<>> /\ tk'.ret = tk.ret
             /\ tk'.stack = SubSeq(tk.stack, 1, Len(tk.stack) - 1)
          \/ /\ tk.stack # <<>> /\ Top(tk).kind = "retry"
             /\ IsRetryable(tk.ret.err)
             /\ tk'.ret = NoRet /\ Top(tk').pc = "sleeping"
          \/ /\ tk.stack = <<>> /\ tk'.pc = "done" /\ tk'.out = tk.ret
  /\ (tk.pc = "running" /\ tk.ret.kind # "error"
        /\ tk'.pc = "running" /\ tk'.ret.kind = "error")
       => \/ Top(tk).kind = "terminal"
          \/ Top(tk).kind = "circuitBreaker" /\ Top(tk).pc = "enter"
                /\ tk'.ret = Thrown1(BreakerOpenError)
C24_Propagate == [][C24_PropagateStep]_vars

\* Through the five middlewares of createTracker, track() has rejected with
\* the AxiosError the adapter threw on its first call
C24_Witness ==
  /\ tk.pc = "done" /\ tk.out = Thrown1(Err("AxiosError", 400, 1))
  /\ Len(tk.chain) = 5 /\ tk.terminalCalls = 1

\* The hook sequence of a request the middleware at position p ended without
\* calling next(): before 1..p, then after p-1..1
ShortLog(p) ==
  [j \in 1..(2 * p - 1) |->
     IF j <= p THEN <<"before", j>> ELSE <<"after", 2 * p - j>>]

\* C25: empty chain and short-circuit.  With no middleware a resolved track()
\* makes the adapter call directly, once.  The breaker entered on an OPEN
\* circuit within the reset timeout, and the cache entered on a live entry,
\* end without calling next(): the error or the cached value is their
\* result and nothing is called.  A request in which a middleware ended
\* without calling next() has entered no later middleware and made no
\* adapter call, the middlewares before it have returned in reverse order,
\* and track() settles with that value or error.
C25_ShortCircuitStep ==
  /\ (tk'.pc = "done" /\ tk'.chain = <<>> /\ tk'.events # <<>>)
       => /\ tk'.log = << <<"terminal", 0>> >>
          /\ tk'.termLog = << <<>> >>
          /\ tk'.out = tk'.ret
  /\ (/\ Running({"circuitBreaker"}, "enter") /\ tk' # tk
      /\ tk.courier \in DOMAIN circuits
      /\ circuits[tk.courier].state = "OPEN"
      /\ now - circuits[tk.courier].lastFailureTime < cbOpts.resetTimeoutMs)
       => /\ tk'.ret = Thrown1(BreakerOpenError)
          /\ tk'.stack = SubSeq(tk.stack, 1, Len(tk.stack) - 1)
          /\ tk'.index = tk.index /\ tk'.terminalCalls = tk.terminalCalls
  /\ (/\ Running({"cache"}, "enter") /\ tk' # tk
      /\ GetCacheKey(<<tk.courier>>, tk.tn) \in DOMAIN cacheMap
      /\ now <= cacheMap[GetCacheKey(<<tk.courier>>, tk.tn)].expiresAt)
       => /\ tk'.ret = Value(cacheMap[GetCacheKey(<<tk.courier>>, tk.tn)].value)
          /\ tk'.stack = SubSeq(tk.stack, 1, Len(tk.stack) - 1)
          /\ tk'.index = tk.index /\ tk'.terminalCalls = tk.terminalCalls
  /\ tk'.pc = "done"
       => \A i \in 1..Len(tk'.log), p \in 1..Len(tk'.chain) :
            (/\ tk'.log[i] = <<"before", p>>
             /\ (i = Len(tk'.log) \/ tk'.log[i + 1][1] = "after"))
              => /\ tk'.chain[p] \in {"circuitBreaker", "cache"}
                 /\ tk'.log = ShortLog(p)
                 /\ tk'.termLog = <<>>
                 /\ tk'.out = tk'.ret
                 /\ tk'.chain[p] = "circuitBreaker"
                      => tk'.out = Thrown1(BreakerOpenError)
                 /\ tk'.chain[p] = "cache" => tk'.out.kind = "value"
C25_ShortCircuit == [][C25_ShortCircuitStep]_vars

\* Through rateLimiter, retry and circuitBreaker, the cache at position 4 of
\* 5 has answered the second track() from its entry: the logger was not
\* entered and the adapter not called
C25_Witness ==
  /\ tk.pc = "done" /\ tk.tracks = 2 /\ Len(tk.chain) = 5
  /\ tk.log = ShortLog(4) /\ tk.termLog = <<>>
  /\ tk.out.kind = "value" /\ tk.terminalCalls = 1

\* The keys any call of the model can use
CacheKeys == {GetCacheKey(p[1], p[2]) : p \in CachePairs}

\* The step is adapter.get(key), made by a call entering the cache
GetsKey(c, key) ==
  \E p \in CachePairs : CacheEntering(c, p) /\ GetCacheKey(p[1], p[2]) = key

\* The step is adapter.set(key, ..), made by a call whose next() resolved
SetsKey(c, key) ==
  /\ CacheCompleting(c) /\ cacheCall'[c].out.kind = "value"
  /\ GetCacheKey(cacheCall[c].courier, cacheCall[c].tn) = key

\* C26: lazy cache expiry.  get(key) returns the stored value while now has
\* not passed expiresAt and leaves the entry alone; past expiresAt it returns
\* absent and removes the entry.  An entry changes or disappears only by
\* such a get or by a set of its key, and set stores the value with
\* expiresAt = now + ttl; the clock alone removes nothing.
C26_LazyExpiryStep ==
  \A key \in CacheKeys :
    /\ \A c \in CacheCallers :
         (GetsKey(c, key) /\ key \in DOMAIN cacheMap)
           => IF now <= cacheMap[key].expiresAt
              THEN /\ cacheCall'[c].pc = "done"
                   /\ cacheCall'[c].out = Value(cacheMap[key].value)
                   /\ cacheMap' = cacheMap
              ELSE /\ cacheCall'[c].pc = "inflight"
                   /\ key \notin DOMAIN cacheMap'
    /\ \A c \in CacheCallers :
         (GetsKey(c, key) /\ key \notin DOMAIN cacheMap)
           => cacheCall'[c].pc = "inflight" /\ cacheMap' = cacheMap
    /\ \A c \in CacheCallers :
         SetsKey(c, key)
           => /\ key \in DOMAIN cacheMap'
              /\ cacheMap'[key] = [value |-> cacheCall'[c].out.val,
                                   expiresAt |-> now + cacheTtl]
    /\ (key \in DOMAIN cacheMap
          /\ (key \notin DOMAIN cacheMap' \/ cacheMap'[key] # cacheMap[key]))
         => \/ \E c \in CacheCallers :
                 GetsKey(c, key) /\ now > cacheMap[key].expiresAt
            \/ \E c \in CacheCallers : SetsKey(c, key)
    /\ (key \notin DOMAIN cacheMap /\ key \in DOMAIN cacheMap')
         => \E c \in CacheCallers : SetsKey(c, key)
C26_LazyExpiry == [][C26_LazyExpiryStep]_vars

\* An entry was stored at time 0 with a ttl of 30000 and a second call was
\* served from the cache; the get of the third call, at 60000, has removed
\* the entry and the call has gone downstream
C26_Witness ==
  /\ now = 60000 /\ cacheTtl = 30000
  /\ cacheMap = [k \in {} |-> 0]
  /\ \E c \in CacheCallers, p \in CachePairs :
       /\ cacheCall[c].pc = "inflight" /\ cacheCall[c].n = 3
       /\ cacheCall[c].courier = p[1] /\ cacheCall[c].tn = p[2]
       /\ cacheHist.last[p] = [has |-> TRUE, val |-> 1, at |-> 0]
       /\ cacheHist.down = 2

\* C27: the chain createTracker() builds holds only the five built-in
\* middlewares, in the order rate limiter, retry, circuit breaker, cache,
\* logger; the first three are there unless their option is false, cache and
\* logger only when their option is true or a configuration object; and a
\* track() on the returned tracker is refused with "No provider registered"
\* exactly for the couriers options.providers does not name.
ChainOrder == <<"rateLimiter", "retry", "circuitBreaker", "cache", "logger">>
Rank(m) == CHOOSE i \in 1..Len(ChainOrder) : ChainOrder[i] = m
InChain(chain, m) == \E i \in 1..Len(chain) : chain[i] = m
C27_DefaultChain ==
  made.pc = "created" =>
    LET o == made.options.middlewares
        chain == tk.chain
    IN /\ \A i \in 1..Len(chain) : chain[i] \in MiddlewareNames
       /\ \A i, j \in 1..Len(chain) : i < j => Rank(chain[i]) < Rank(chain[j])
       /\ \A m \in {"rateLimiter", "retry", "circuitBreaker"} :
            InChain(chain, m) <=> o[m] # "false"
       /\ \A m \in {"cache", "logger"} :
            InChain(chain, m) <=> o[m] \in {"true", "config"}
       /\ (tk.tracks > 0 /\ tk.courier \in Couriers) =>
            ((tk.pc = "done" /\ tk.out = Thrown1(NotRegistered))
               <=> made.options.providers[tk.courier] = "undefined")

\* createTracker({providers: {fedex: {...}}, middlewares: {rateLimiter:
\* false, logger: true}}) returned the chain retry, circuit breaker, logger,
\* and its track() for "ups" was refused.
C27_Witness ==
  /\ made.pc = "created"
  /\ made.options.middlewares.rateLimiter = "false"
  /\ made.options.middlewares.logger = "true"
  /\ made.options.middlewares.cache = "undefined"
  /\ tk.chain = <<"retry", "circuitBreaker", "logger">>
  /\ made.options.providers = [c \in Couriers |-> IF c = "fedex" THEN "config" ELSE "undefined"]
  /\ tk.pc = "done" /\ tk.courier = "ups" /\ tk.out = Thrown1(NotRegistered)

\* C28: a middleware passed to createTracker() as options.middleware = [mw]
\* is part of the chain: on every track() of the returned tracker that
\* reaches the chain, its execute() has run by the time the track() settles.
Executed(kind) ==
  \E k \in 1..Len(tk.log) : tk.log[k][1] = "before" /\ tk.chain[tk.log[k][2]] = kind
C28_OptionsMiddleware ==
  (/\ made.pc = "created" /\ made.options.middleware = <<"mw">>
   /\ tk.pc = "done" /\ tk.events # <<>>)
    => InChain(tk.chain, "mw") /\ Executed("mw")

\* createTracker({providers: {fedex: {}}, middleware: [mw]}), the call of
\* the test: track() for "fedex" resolved, the default chain ran, and mw
\* is not in the chain.
C28_Witness ==
  /\ made.pc = "created" /\ made.options.middleware = <<"mw">>
  /\ made.options.middlewares = [m \in MiddlewareNames |-> "undefined"]
  /\ tk.pc = "done" /\ tk.courier = "fedex" /\ tk.out.kind = "value"
  /\ tk.chain = <<"rateLimiter", "retry", "circuitBreaker">>
  /\ Executed("rateLimiter") /\ ~Executed("mw")

\* C29: every courier code has its own limiter, made by the first call with
\* that code with the limits of that code and used by every later call with
\* it; and a queued call can be launched exactly when the calls of its own
\* code allow it (none of them queued before it, fewer than maxConcurrent of
\* them running, the last launch of one of them at least minTime ago),
\* whatever the calls of other codes are doing.
LimCalls == {c \in 1..NLimCallers : lim.call[c].pc # "idle"}
SameCode(c) == {d \in LimCalls \ {c} : lim.call[d].code = lim.call[c].code}
OwnBudget(c) ==
  LET limits == LimitsOf(lim.call[c].code)
  IN /\ \A d \in SameCode(c) : lim.call[d].pc = "queued" => d > c
     /\ Cardinality({d \in SameCode(c) : lim.call[d].pc \in {"calling", "sleeping"}})
          < limits.maxConcurrent
     /\ \A d \in SameCode(c) :
          lim.call[d].launchedAt >= 0 => now >= lim.call[d].launchedAt + limits.minTime
C29_OwnLimiter ==
  /\ \A c, d \in LimCalls :
       lim.call[c].limiter = lim.call[d].limiter <=> lim.call[c].code = lim.call[d].code
  /\ \A c \in LimCalls :
       /\ lim.call[c].code \in DOMAIN lim.limiters
       /\ lim.limiters[lim.call[c].code] = lim.call[c].limiter
       /\ lim.bn[lim.call[c].limiter].config = LimitsOf(lim.call[c].code)
  /\ Len(lim.bn) = Cardinality({lim.call[c].code : c \in LimCalls})
  /\ \A c \in LimCalls :
       lim.call[c].pc = "queued" => (ENABLED LimLaunch(c) <=> OwnBudget(c))
C29_CreatedOnceStep ==
  \A k \in DOMAIN lim.limiters :
    k \in DOMAIN lim'.limiters /\ lim'.limiters[k] = lim.limiters[k]
C29_KeysIndependent == []C29_OwnLimiter /\ [][C29_CreatedOnceStep]_vars

\* A call for "fedex" was launched at 0 and is still running; the call for
\* "ups" made after it was launched at 0 too, on a second limiter.
C29_Witness ==
  /\ lim.call[1].code = "fedex" /\ lim.call[1].pc = "calling"
  /\ lim.call[2].code = "ups" /\ lim.call[2].pc = "calling"
  /\ lim.call[1].launchedAt = 0 /\ lim.call[2].launchedAt = 0
  /\ lim.call[1].limiter # lim.call[2].limiter

C31_ResolutionStep ==
  /\ \A courier \in Couriers, tn \in TrackedNumbers \cup {<<"9">>} :
       TkTrack(courier, tn)
         => /\ tk'.courier = courier
            /\ IF courier \in Registered THEN tk'.pc = "running"
               ELSE tk'.pc = "done" /\ tk'.out = Thrown1(NotRegistered)
  /\ \A tn \in TrackedNumbers \cup {<<"9">>} :
       TkTrack("auto", tn)
         => /\ IF \E p \in Registered : GrammarOf(tn) \in Declares(p)
               THEN /\ tk'.pc = "running"
                    /\ tk'.courier \in Registered
                    /\ GrammarOf(tn) \in Declares(tk'.courier)
               ELSE tk'.pc = "done" /\ tk'.out = Thrown1(NotDetected)
            /\ (GrammarOf(tn) = "s10" /\ "usps" \in Registered)
                 => tk'.pc = "running" /\ tk'.courier = "usps"
C31_Resolution == [][C31_ResolutionStep]_vars

\* createTracker({providers: {fedex, usps}}): a track() of an s10 number
\* without courier code went to the adapter "usps" and resolved.
C31_Witness ==
  /\ made.pc = "created" /\ made.providers = {"fedex", "usps"}
  /\ tk.pc = "done" /\ tk.tn = <<"9">> /\ tk.courier = "usps"
  /\ tk.out.kind = "value" /\ tk.terminalCalls = 1

\* C32: with failureThreshold >= 1 and calls for a key overlapping in any
\* way, every circuit record is in a valid combination: CLOSED with fewer
\* failures than the threshold, OPEN or HALF_OPEN with at least as many.
C32_ValidCombination ==
  \A k \in DOMAIN circuits :
    /\ circuits[k].state \in {"CLOSED", "OPEN", "HALF_OPEN"}
    /\ circuits[k].state = "CLOSED"
         => circuits[k].failures < cbOpts.failureThreshold
    /\ circuits[k].state \in {"OPEN", "HALF_OPEN"}
         => circuits[k].failures >= cbOpts.failureThreshold

\* Two overlapping calls for a key both failed: the count went past the
\* threshold, the circuit is OPEN.
C32_Witness ==
  \E k \in DOMAIN circuits :
    /\ circuits[k].state = "OPEN"
    /\ circuits[k].failures = cbOpts.failureThreshold + 1
    /\ \A c \in CbCallers : cbCall[c].key = k /\ cbCall[c].out = "failed"
    /\ cbCalls = 2

\* C33: an OPEN circuit is left only through the timeout.  A step that
\* changes the state of an OPEN circuit is a call made once resetTimeoutMs
\* has passed since the last failure, moving it to HALF_OPEN; and no step
\* changes the failure count of a circuit that is and stays OPEN downwards.
\* In particular the completion of a call admitted before the circuit
\* opened neither closes it nor resets its count.
C33_OpenLeftStep ==
  \A k \in DOMAIN circuits :
    circuits[k].state = "OPEN"
      => /\ circuits'[k].state # "OPEN"
              => /\ circuits'[k].state = "HALF_OPEN"
                 /\ ResetElapsed(circuits[k])
                 /\ cbCalls' = cbCalls + 1
         /\ circuits'[k].failures >= circuits[k].failures
C33_OpenLeftByTimeout == [][C33_OpenLeftStep]_vars

\* failureThreshold 1, no time has passed: the first call was let through,
\* the second, let through while the first was in flight, failed and opened
\* the circuit, then the first resolved: the circuit is CLOSED with no
\* failures.
C33_Witness ==
  \E k \in DOMAIN circuits :
    /\ cbOpts.failureThreshold = 1 /\ now = 0
    /\ cbCall[1].key = k /\ cbCall[1].n = 1 /\ cbCall[1].out = "ok"
    /\ cbCall[2].key = k /\ cbCall[2].n = 2 /\ cbCall[2].out = "failed"
    /\ circuits[k].state = "CLOSED" /\ circuits[k].failures = 0

\* C34: HALF_OPEN admits a single probe.  While a circuit is HALF_OPEN and
\* the call that moved it there is still in flight, no further call for
\* that key is passed downstream.
ProbeInFlight(k) ==
  \E c \in CbCallers :
    cbCall[c].pc = "inflight" /\ cbCall[c].key = k /\ cbCall[c].probe
C34_SingleProbeStep ==
  \A k \in DOMAIN circuits, c \in CbCallers :
    (/\ circuits[k].state = "HALF_OPEN" /\ ProbeInFlight(k)
     /\ cbCall[c].pc # "inflight" /\ cbCall'[c].key = k
     /\ cbCalls' = cbCalls + 1)
      => cbCall'[c].pc # "inflight"
C34_SingleProbe == [][C34_SingleProbeStep]_vars

\* The probe of a HALF_OPEN circuit is in flight, and a call made after it
\* for the same key is in flight downstream too.
C34_Witness ==
  \E k \in DOMAIN circuits :
    /\ circuits[k].state = "HALF_OPEN"
    /\ cbCall[1].pc = "inflight" /\ cbCall[1].key = k /\ cbCall[1].probe
    /\ cbCall[2].pc = "inflight" /\ cbCall[2].key = k /\ ~cbCall[2].probe
    /\ cbCall[2].n = cbCall[1].n + 1

\* C35: a circuit closes only on a real downstream success.  A step that
\* moves a circuit that is not CLOSED to CLOSED, or lowers its failure
\* count, is the return of a track() in which the carrier was called, with
\* the result of that carrier call; a result served by the cache inside the
\* breaker does neither.
C35_ClosesStep ==
  \A k \in DOMAIN circuits :
    (\/ circuits[k].state # "CLOSED" /\ circuits'[k].state = "CLOSED"
     \/ circuits'[k].failures < circuits[k].failures)
      => /\ tk.termLog # <<>>
         /\ tk.ret = Value(tk.terminalCalls)
C35_ClosesOnRealSuccess == [][C35_ClosesStep]_vars

\* failureThreshold 1: a first track() cached its result, a second failed
\* at the carrier and opened the circuit, and 30 s later a third, for the
\* cached number, resolved without a carrier call: the circuit is CLOSED
\* with no failures.
C35_Witness ==
  /\ cbOpts.failureThreshold = 1 /\ now = 30000
  /\ tk.pc = "done" /\ tk.tracks = 3 /\ tk.terminalCalls = 2
  /\ tk.termLog = <<>> /\ tk.out = Value(1)
  /\ circuits["ups"].state = "CLOSED" /\ circuits["ups"].failures = 0
  /\ circuits["ups"].lastFailureTime = 0

\* C36: a call rejected with the breaker-open error leaves every circuit
\* record as it was: state, failures and lastFailureTime of its key are
\* unchanged, so the time at which the circuit may become HALF_OPEN is not
\* moved.
C36_RejectedStep ==
  \A c \in CbCallers :
    (/\ cbCalls' = cbCalls + 1
     /\ cbCall'[c].n = cbCalls' /\ cbCall'[c].out = "rejected")
      => /\ circuits' = circuits
         /\ circuits[cbCall'[c].key].state = "OPEN"
         /\ ~ResetElapsed(circuits[cbCall'[c].key])
C36_RejectedUntouched == [][C36_RejectedStep]_vars

\* resetTimeoutMs 60000: the circuit opened at 0, a call was rejected at
\* 30000, and the record still has lastFailureTime 0.
C36_Witness ==
  \E k \in DOMAIN circuits, c \in CbCallers :
    /\ cbOpts.resetTimeoutMs = 60000 /\ now = 30000
    /\ cbCall[c].key = k /\ cbCall[c].out = "rejected" /\ cbCall[c].n = cbCalls
    /\ circuits[k].state = "OPEN" /\ circuits[k].lastFailureTime = 0

\* C37: 401 invalidation is single-flight too.  When a request handles the
\* 401 of its first data call while the cache holds a valid token newer
\* than the one the request used (another request has refreshed already),
\* the cached token is kept and no further token request is started.
C37_LateStep ==
  \A c \in Callers :
    (/\ req[c].pc = "fetch" /\ req[c].phase = 1 /\ req'[c].phase = 2
     /\ CacheValid(tokenCache) /\ tokenCache.token > req[c].tok)
      => tokenCache' = tokenCache /\ promises' = promises
C37_Late401KeepsToken == [][C37_LateStep]_vars

\* Two requests used token 1.  The first got 401, refreshed (token 2) and
\* ended; then the second got 401: the cache is empty again and a third
\* token request is pending.
C37_Witness ==
  /\ Len(promises) = 3 /\ promises[2].state = "resolved"
  /\ promises[3].state = "pending" /\ tokenPromise = 3
  /\ tokenCache = NoToken /\ now = 0
  /\ req[1].pc = "done" /\ req[1].out = "ok" /\ req[1].calls = 2
  /\ req[2].pc = "ownWait" /\ req[2].phase = 2 /\ req[2].p = 3

\* C38: overlapping cache misses collapse.  A call that starts while another
\* call for the same {courierCode, trackingNumber} has its downstream
\* invocation in flight does not invoke downstream itself.
C38_OverlapStep ==
  \A c \in CacheCallers, p \in CachePairs :
    (/\ CacheEntering(c, p)
     /\ \E c2 \in CacheCallers \ {c} :
          /\ cacheCall[c2].pc = "inflight"
          /\ cacheCall[c2].courier = p[1] /\ cacheCall[c2].tn = p[2])
      => cacheHist'.down = cacheHist.down /\ cacheCall'[c].down = 0
C38_OverlappingMissesCollapse == [][C38_OverlapStep]_vars

\* Two calls for ups, "1" made at the same instant: both found nothing
\* cached and each has a downstream invocation of its own in flight.
C38_Witness ==
  /\ now = 0 /\ cacheHist.started = 2 /\ cacheHist.down = 2
  /\ \A c \in {1, 2} :
       /\ cacheCall[c].pc = "inflight" /\ cacheCall[c].down = c
       /\ cacheCall[c].courier = <<"ups">> /\ cacheCall[c].tn = <<"1">>

\* C39: retry always makes an attempt.  Whatever maxAttempts is, an execute
\* that has ended has invoked downstream at least once, and when it ended
\* by rejecting, it rejected with an error a downstream invocation threw.
C39_AlwaysAttempts ==
  rt.pc = "done" =>
    /\ rt.calls >= 1
    /\ rt.out.kind = "error" =>
         \E i \in 1..Len(rt.errs) : rt.errs[i] = rt.out.err

\* maxAttempts 0: execute has ended without any call of next(), rejecting
\* with the value of the unassigned lastError.
C39_Witness ==
  /\ rt.maxAttempts = 0 /\ rt.pc = "done" /\ rt.calls = 0
  /\ rt.errs = <<>> /\ rt.out.kind = "error" /\ rt.out.err = Undefined

\* C40: the safety buffer is applied exactly once.  A refresh answered at
\* time t with lifetime expires_in stores expiresAt = t + expires_in * 1000
\* - 60000; a getToken() at the start of a track() returns the cached token,
\* with no token request, exactly when now < the stored expiresAt; a token
\* with expires_in * 1000 <= 60000 is stored already past its expiresAt, the
\* clock never runs back, and a getToken() that finds a token past its
\* expiresAt goes to the token endpoint: it starts a new refresh, or, when
\* one is in flight already, awaits that one (C1).
C40_Served(c) ==
  /\ req'[c].pc = "fetch" /\ req'[c].tok = tokenCache.token
  /\ req'[c].from = 0 /\ promises' = promises
C40_BufferOnceStep ==
  /\ now' >= now
  /\ (tokenCache' # tokenCache /\ tokenCache'.has) =>
       \E e \in ExpiresIn :
         /\ tokenCache'.expiresAt = now + e * 1000 - 60000
         /\ tokenCache'.expiry = now + e * 1000
         /\ e * 1000 <= 60000 => tokenCache'.expiresAt <= now
  /\ \A c \in Callers :
       (tracksStarted' = tracksStarted + 1 /\ req'[c] # req[c]) =>
         /\ C40_Served(c) <=> (tokenCache.has /\ now < tokenCache.expiresAt)
         /\ (tokenCache.has /\ tokenCache.expiresAt <= now) =>
              IF tokenPromise = 0
              THEN /\ Len(promises') = Len(promises) + 1
                   /\ promises'[Len(promises')].state = "pending"
                   /\ tokenPromise' = Len(promises')
                   /\ req'[c].pc = "ownWait" /\ req'[c].p = Len(promises')
              ELSE /\ promises' = promises /\ tokenPromise' = tokenPromise
                   /\ req'[c].pc = "joinWait" /\ req'[c].p = tokenPromise
C40_BufferOnce == [][C40_BufferOnceStep]_vars

\* A token with expires_in 30 was stored at 0 with expiresAt -30000; the
\* next track(), made while it is cached, has started a second token request.
C40_Witness ==
  /\ now = 0 /\ tracksStarted = 2
  /\ tokenCache.has /\ tokenCache.token = 1 /\ tokenCache.expiresAt = -30000
  /\ Len(promises) = 2 /\ promises[2].state = "pending" /\ tokenPromise = 2
  /\ \E c \in Callers :
       req[c].pc = "ownWait" /\ req[c].phase = 1 /\ req[c].p = 2
====
